---- MODULE Spec2Model ----
(***************************************************************************)
(* Provider signup (routes/provider.js and its later revision) and patient *)
(* intake (routes/patients.js and its revisions) of the nodejs backend.    *)
(*                                                                         *)
(* A JavaScript string is a sequence of one-character strings, so that     *)
(* trim, digit stripping, lower-casing and the duplicate regular           *)
(* expression are computed character by character.                         *)
(***************************************************************************)
EXTENDS Integers, Sequences, FiniteSets, TLC

----------------------------------------------------------------------------
(* JavaScript values and strings *)

JStr(s) == [t |-> "string", s |-> s]

JNum(s) == [t |-> "number", s |-> s]

JUndefined == [t |-> "undefined", s |-> <<>>]

JNull == [t |-> "null", s |-> <<>>]

\* truthiness of a primitive: "", 0, null and undefined are falsy
Truthy(v) ==
    CASE v.t = "string" -> v.s # <<>>
      [] v.t = "number" -> v.s # <<"0">>
      [] OTHER -> FALSE

\* v === undefined || v === null
Nullish(v) == v.t \in {"undefined", "null"}

\* String(v)
String(v) ==
    CASE v.t = "undefined" -> <<"u","n","d","e","f","i","n","e","d">>
      [] v.t = "null" -> <<"n","u","l","l">>
      [] OTHER -> v.s

WhiteSpace == {" "}

DigitChars == {"0","1","2","3","4","5","6","7","8","9"}

RECURSIVE trimStart(_)
trimStart(s) ==
    IF s # <<>> /\ Head(s) \in WhiteSpace THEN trimStart(Tail(s)) ELSE s

RECURSIVE trimEnd(_)
trimEnd(s) ==
    IF s # <<>> /\ s[Len(s)] \in WhiteSpace
    THEN trimEnd(SubSeq(s, 1, Len(s) - 1))
    ELSE s

\* String.prototype.trim
trim(s) == trimEnd(trimStart(s))

\* value.replace(/\D/g, "")
replaceNonDigits(s) == SelectSeq(s, LAMBDA c : c \in DigitChars)

UpperToLower ==
    [c \in {"A","B","C","D","E","F","G","H","I","J","K","L","M","N","O","P",
            "Q","R","S","T","U","V","W","X","Y","Z"} |->
        CASE c = "A" -> "a" [] c = "B" -> "b" [] c = "C" -> "c" [] c = "D" -> "d"
          [] c = "E" -> "e" [] c = "F" -> "f" [] c = "G" -> "g" [] c = "H" -> "h"
          [] c = "I" -> "i" [] c = "J" -> "j" [] c = "K" -> "k" [] c = "L" -> "l"
          [] c = "M" -> "m" [] c = "N" -> "n" [] c = "O" -> "o" [] c = "P" -> "p"
          [] c = "Q" -> "q" [] c = "R" -> "r" [] c = "S" -> "s" [] c = "T" -> "t"
          [] c = "U" -> "u" [] c = "V" -> "v" [] c = "W" -> "w" [] c = "X" -> "x"
          [] c = "Y" -> "y" [] c = "Z" -> "z"]

\* String.prototype.toLowerCase
toLowerCase(s) ==
    [i \in 1..Len(s) |-> IF s[i] \in DOMAIN UpperToLower THEN UpperToLower[s[i]] ELSE s[i]]

\* the elements of an array
Range(seq) == {seq[i] : i \in 1..Len(seq)}

\* the regular expression /p/ finds p somewhere in s
includes(s, p) ==
    \E i \in 1..(Len(s) + 1 - Len(p)) : SubSeq(s, i, i + Len(p) - 1) = p

----------------------------------------------------------------------------
(* routes/provider.js: message literals *)

UNABLE_HEALTHIE == <<"U","n","a","b","l","e"," ","t","o"," ","c","r","e","a","t","e"," ","r","e","f","e","r","r","i","n","g"," ","p","r","o","v","i","d","e","r"," ","i","n"," ","H","e","a","l","t","h","i","e",".">>

UNABLE_AUTHORIZER == <<"U","n","a","b","l","e"," ","t","o"," ","c","r","e","a","t","e"," ","A","u","t","h","o","r","i","z","e","r"," ","a","c","c","o","u","n","t",".">>

UNABLE_PROVIDER == <<"U","n","a","b","l","e"," ","t","o"," ","c","r","e","a","t","e"," ","p","r","o","v","i","d","e","r"," ","a","c","c","o","u","n","t",".">>

MISSING_FIELDS == <<"M","i","s","s","i","n","g"," ","r","e","q","u","i","r","e","d"," ","f","i","e","l","d","s",".">>

MISSING_ENV == <<"M","i","s","s","i","n","g"," ","r","e","q","u","i","r","e","d"," ","e","n","v","i","r","o","n","m","e","n","t"," ","v","a","r","i","a","b","l","e",":"," ">>

HEALTHIE_AUTHORIZATION == <<"H","E","A","L","T","H","I","E","_","A","U","T","H","O","R","I","Z","A","T","I","O","N">>

AUTHORIZER_ADMIN_SECRET == <<"A","U","T","H","O","R","I","Z","E","R","_","A","D","M","I","N","_","S","E","C","R","E","T">>

\* the message of the TypeError a rejected fetch throws
FETCH_FAILED == <<"f","e","t","c","h"," ","f","a","i","l","e","d">>

----------------------------------------------------------------------------
(* routes/provider.js: errors *)

\* class ApiError: new ApiError(message, status, code, details)
ApiError(message, status, code, details) ==
    [message |-> message, status |-> status, code |-> code, details |-> details]

\* details left undefined
NoDetails == [defined |-> FALSE, list |-> <<>>]

Details(list) == [defined |-> TRUE, list |-> list]

\* an Error that is no ApiError: no status (0), no code (""), no details
PlainError(message) ==
    [message |-> message, status |-> 0, code |-> "", details |-> NoDetails]

NoError == PlainError(<<>>)

----------------------------------------------------------------------------
(* routes/provider.js: what an upstream GraphQL service answers *)

\* one entry of body.errors or of result.messages; message <<>> is no message
Entry(message) == [message |-> message]

\* referring_physician / duplicated_physician of the mutation's payload
NoPhysician == [present |-> FALSE, id |-> JNull]

Physician(id) == [present |-> TRUE, id |-> id]

\* body.data.createReferringPhysician
NoResult ==
    [present |-> FALSE, referring_physician |-> NoPhysician,
     duplicated_physician |-> NoPhysician, messages |-> <<>>]

Result(referring, duplicated, messages) ==
    [present |-> TRUE, referring_physician |-> referring,
     duplicated_physician |-> duplicated, messages |-> messages]

\* a parsed body: errors, message, data.createReferringPhysician, data.signup
Body(errors, message, result, signup) ==
    [errors |-> errors, message |-> message, result |-> result, signup |-> signup]

\* {} and {raw: text}: none of the members the clients read
EmptyBody == Body(<<>>, <<>>, NoResult, FALSE)

\* the text of a response: empty, not JSON, or the JSON of a body
Text(kind, body) == [kind |-> kind, body |-> body]

\* what fetch settles to: a rejection, or a response with ok and a text
Rejected == [net |-> "reject", ok |-> FALSE, text |-> Text("empty", EmptyBody)]

Response(ok, text) == [net |-> "ok", ok |-> ok, text |-> text]

\* parseJsonSafe of routes/provider.js
parseJsonSafe(text) ==
    IF text.kind = "empty" THEN EmptyBody
    ELSE IF text.kind = "json" THEN text.body
    ELSE EmptyBody

\* body?.errors?.[0]?.message || body?.message || fallback
getGraphQlErrorMessage(body, fallback) ==
    IF body.errors # <<>> /\ body.errors[1].message # <<>>
    THEN body.errors[1].message
    ELSE IF body.message # <<>> THEN body.message ELSE fallback

DuplicatePatterns ==
    { <<"a","l","r","e","a","d","y"," ","e","x","i","s","t","s">>,
      <<"u","s","e","r"," ","e","x","i","s","t","s">>,
      <<"d","u","p","l","i","c","a","t","e">> }

\* the same expression without the i flag
isAuthorizerDuplicate_caseSensitive(message) ==
    \E p \in DuplicatePatterns : includes(message, p)

\* /already exists|user exists|duplicate/i.test(message || "")
isAuthorizerDuplicate(message) ==
    \E p \in DuplicatePatterns : includes(toLowerCase(message), p)

----------------------------------------------------------------------------
(* routes/provider.js: input normalization and validation *)

toTrimmedString(value) == IF value.t = "string" THEN trim(value.s) ELSE <<>>

\* npi and phone trimmed only, the digits left as typed
normalizeSignupInput_keepingNonDigits(payload) ==
    [firstName |-> toTrimmedString(payload.firstName),
     lastName |-> toTrimmedString(payload.lastName),
     practiceName |-> toTrimmedString(payload.practiceName),
     npi |-> toTrimmedString(payload.npi),
     email |-> toTrimmedString(payload.email),
     phone |-> toTrimmedString(payload.phone),
     password |-> IF payload.password.t = "string" THEN payload.password.s ELSE <<>>]

normalizeSignupInput(payload) ==
    [firstName |-> toTrimmedString(payload.firstName),
     lastName |-> toTrimmedString(payload.lastName),
     practiceName |-> toTrimmedString(payload.practiceName),
     npi |-> replaceNonDigits(toTrimmedString(payload.npi)),
     email |-> toTrimmedString(payload.email),
     phone |-> replaceNonDigits(toTrimmedString(payload.phone)),
     password |-> IF payload.password.t = "string" THEN payload.password.s ELSE <<>>]

\* requiredFields.filter((field) => !input[field])
validateFields(input, requiredFields) ==
    SelectSeq(requiredFields, LAMBDA field : input[field] = <<>>)

RequiredFields ==
    <<"firstName", "lastName", "practiceName", "npi", "email", "phone", "password">>

----------------------------------------------------------------------------
(* routes/provider.js: the two clients *)

\* what a client call comes to: a thrown error or a returned value
Threw(error) == [threw |-> TRUE, error |-> error, duplicated |-> FALSE,
                 message |-> <<>>, hasId |-> FALSE, id |-> <<>>]

Returned(duplicated, message, hasId, id) ==
    [threw |-> FALSE, error |-> NoError, duplicated |-> duplicated,
     message |-> message, hasId |-> hasId, id |-> id]

\* requireEnv(name), when process.env[name] is not set
requireEnv(name) == ApiError(MISSING_ENV \o name, 500, "CONFIG_ERROR", NoDetails)

\* the variables of the mutation createReferringProvider posts to Healthie
HealthieRequest(input) ==
    [to |-> "healthie",
     params |-> [first_name |-> input.firstName, last_name |-> input.lastName,
                 business_name |-> input.practiceName, phone_number |-> input.phone,
                 email |-> input.email, npi |-> input.npi,
                 other_id |-> <<"I","n","s","o","m","n","i","a","R","X">>]]

\* messages.find((entry) => entry?.message)?.message || ""
RECURSIVE firstMessage(_)
firstMessage(messages) ==
    IF messages = <<>> THEN <<>>
    ELSE IF Head(messages).message # <<>> THEN Head(messages).message
    ELSE firstMessage(Tail(messages))

\* result?.referring_physician?.id || result?.duplicated_physician?.id || null
providerIdOf(result) ==
    IF result.referring_physician.present /\ Truthy(result.referring_physician.id)
    THEN result.referring_physician.id
    ELSE IF result.duplicated_physician.present /\ Truthy(result.duplicated_physician.id)
    THEN result.duplicated_physician.id
    ELSE JNull

\* createReferringProvider after its fetch, up to the payload: a rejection, a
\* status that is not 2xx, an error list, or no createReferringPhysician
healthieFailure(response) ==
    LET body == parseJsonSafe(response.text) IN
    IF response.net = "reject" THEN Threw(PlainError(FETCH_FAILED))
    ELSE IF ~response.ok \/ body.errors # <<>>
    THEN Threw(ApiError(getGraphQlErrorMessage(body, UNABLE_HEALTHIE), 502,
                        "HEALTHIE_ERROR",
                        IF body.errors # <<>> THEN Details(body.errors) ELSE NoDetails))
    ELSE IF ~body.result.present
    THEN Threw(ApiError(UNABLE_HEALTHIE, 502, "HEALTHIE_ERROR", NoDetails))
    ELSE Returned(FALSE, <<>>, FALSE, <<>>)

\* the payload as routes/provider.js reads it: no id is returned
createReferringProvider_provider(response) ==
    LET result == parseJsonSafe(response.text).result
        message == firstMessage(result.messages)
    IN  IF healthieFailure(response).threw THEN healthieFailure(response)
        ELSE IF ~result.referring_physician.present /\ ~result.duplicated_physician.present
        THEN Threw(ApiError(IF message # <<>> THEN message ELSE UNABLE_HEALTHIE, 422,
                            "HEALTHIE_CREATE_FAILED", Details(result.messages)))
        ELSE Returned(result.duplicated_physician.present, message, FALSE, <<>>)

\* the later revision with the created record's id never looked at
createReferringProvider_duplicateIdOnly(response) ==
    LET result == parseJsonSafe(response.text).result
        message == firstMessage(result.messages)
        providerId == IF result.duplicated_physician.present
                         /\ Truthy(result.duplicated_physician.id)
                      THEN result.duplicated_physician.id ELSE JNull
    IN  IF healthieFailure(response).threw THEN healthieFailure(response)
        ELSE IF ~Truthy(providerId)
        THEN Threw(ApiError(IF message # <<>> THEN message ELSE UNABLE_HEALTHIE, 422,
                            "HEALTHIE_CREATE_FAILED", Details(result.messages)))
        ELSE Returned(result.duplicated_physician.present, message, TRUE,
                      String(providerId))

\* the payload as the later revision reads it: the provider id is returned
createReferringProvider_part_000(response) ==
    LET result == parseJsonSafe(response.text).result
        message == firstMessage(result.messages)
        providerId == providerIdOf(result)
    IN  IF healthieFailure(response).threw THEN healthieFailure(response)
        ELSE IF ~Truthy(providerId)
        THEN Threw(ApiError(IF message # <<>> THEN message ELSE UNABLE_HEALTHIE, 422,
                            "HEALTHIE_CREATE_FAILED", Details(result.messages)))
        ELSE Returned(result.duplicated_physician.present, message, TRUE,
                      String(providerId))

\* the variables of the signup mutation routes/provider.js posts to Authorizer
AuthorizerRequest_provider(input) ==
    [to |-> "authorizer",
     params |-> [email |-> input.email, password |-> input.password,
                 confirm_password |-> input.password, roles |-> <<"user">>,
                 given_name |-> input.firstName, family_name |-> input.lastName]]

\* the same of the later revision: phone, app_data and the nickname are added
AuthorizerRequest_part_000(input, healthieProviderId) ==
    [to |-> "authorizer",
     params |-> [email |-> input.email, password |-> input.password,
                 confirm_password |-> input.password, roles |-> <<"user">>,
                 given_name |-> input.firstName, family_name |-> input.lastName,
                 phone_number |-> input.phone,
                 app_data |-> [practice_name |-> input.practiceName],
                 nickname |-> healthieProviderId]]

\* createAuthorizerUser after its fetch (the same in both revisions)
createAuthorizerUser(response) ==
    LET body == parseJsonSafe(response.text)
        message == getGraphQlErrorMessage(body, UNABLE_AUTHORIZER)
    IN  IF response.net = "reject" THEN Threw(PlainError(FETCH_FAILED))
        ELSE IF ~response.ok \/ body.errors # <<>>
        THEN IF isAuthorizerDuplicate(message)
             THEN Returned(TRUE, <<>>, FALSE, <<>>)
             ELSE Threw(ApiError(message, 502, "AUTHORIZER_ERROR",
                                 IF body.errors # <<>> THEN Details(body.errors)
                                 ELSE NoDetails))
        ELSE IF ~body.signup
        THEN Threw(ApiError(UNABLE_AUTHORIZER, 502, "AUTHORIZER_ERROR", NoDetails))
        ELSE Returned(FALSE, <<>>, FALSE, <<>>)

----------------------------------------------------------------------------
(* routes/patients.js and its revisions: helpers *)

\* TREATMENT_LABELS
CBTI == "Cognitive Behavioral Therapy for Insomnia"

CPAP_COMISA == "CPAP Compliance Program for COMISA (Co-morbid Insomnia with Sleep Apnea)"

SLEEP_EEG == "Sleep EEG for Insomnia"

ZEPBOUND_OSA == "Zepbound Rx for OSA"

NATURAL_PRODUCTS == "Natural Products for Insomnia"

INSOMNIA_MEDS_MGMT == "Insomnia Medications Management* (help patients treat insomnia without addictive medications)"

\* suggestedTreatments: an array of labels, or a value that is no array
Treatments(isArray, items) == [isArray |-> isArray, items |-> items]

\* the elements are looked at whether or not the value is an array
treatmentsToFlags_withoutIsArray(suggestedTreatments) ==
    LET treatments == Range(suggestedTreatments.items)
    IN  [tx_cbti |-> CBTI \in treatments,
         tx_cpap_comisa |-> CPAP_COMISA \in treatments,
         tx_sleep_eeg |-> SLEEP_EEG \in treatments,
         tx_zepbound_osa |-> ZEPBOUND_OSA \in treatments,
         tx_natural_products |-> NATURAL_PRODUCTS \in treatments,
         tx_insomnia_meds_mgmt |-> INSOMNIA_MEDS_MGMT \in treatments]

treatmentsToFlags(suggestedTreatments) ==
    LET treatments == IF suggestedTreatments.isArray
                      THEN Range(suggestedTreatments.items) ELSE {}
    IN  [tx_cbti |-> CBTI \in treatments,
         tx_cpap_comisa |-> CPAP_COMISA \in treatments,
         tx_sleep_eeg |-> SLEEP_EEG \in treatments,
         tx_zepbound_osa |-> ZEPBOUND_OSA \in treatments,
         tx_natural_products |-> NATURAL_PRODUCTS \in treatments,
         tx_insomnia_meds_mgmt |-> INSOMNIA_MEDS_MGMT \in treatments]

\* the members of app_data the routes read; a member left out is undefined
AppObject(practice_name, healthie_provider_id, healthie_providerId, healthie_id) ==
    [practice_name |-> practice_name, healthie_provider_id |-> healthie_provider_id,
     healthie_providerId |-> healthie_providerId, healthie_id |-> healthie_id]

NoAppObject == AppObject(JUndefined, JUndefined, JUndefined, JUndefined)

\* app_data as stored or as the profile query returns it: null, an object, a
\* JSON text of an object, a text that is no JSON, or a number
AppData(kind, obj) == [kind |-> kind, obj |-> obj]

AppNull == AppData("null", NoAppObject)

\* a parsed value: an object or null
NoData == [present |-> FALSE, obj |-> NoAppObject]

Data(obj) == [present |-> TRUE, obj |-> obj]

\* parseJsonSafe of routes/patients.js applied to a text column
parseJsonSafeData(value) == IF value.kind = "json" THEN Data(value.obj) ELSE NoData

\* parseAppData
parseAppData(value) ==
    CASE value.kind = "null" -> NoData
      [] value.kind \in {"json", "text"} -> parseJsonSafeData(value)
      [] value.kind = "object" -> Data(value.obj)
      [] OTHER -> NoData

\* String(value || "").trim() with the case kept
normalizePracticeName_keepingCase(value) ==
    trim(IF Truthy(value) THEN String(value) ELSE <<>>)

\* normalizePracticeName
normalizePracticeName(value) ==
    toLowerCase(trim(IF Truthy(value) THEN String(value) ELSE <<>>))

\* a ?? b ?? c
coalesce(a, b, c) == IF ~Nullish(a) THEN a ELSE IF ~Nullish(b) THEN b ELSE c

\* extractHealthieProviderId; <<>> is null
extractHealthieProviderId(appData) ==
    LET candidate == IF appData.present
                     THEN coalesce(appData.obj.healthie_provider_id,
                                   appData.obj.healthie_providerId,
                                   appData.obj.healthie_id)
                     ELSE JUndefined
    IN  IF Nullish(candidate) THEN <<>> ELSE trim(String(candidate))

BEARER == <<"B","e","a","r","e","r"," ">>

\* getBearerToken; <<>> is null
getBearerToken(authorization) ==
    LET authHeader == IF Truthy(authorization) THEN authorization.s ELSE <<>> IN
    IF Len(authHeader) >= Len(BEARER) /\ SubSeq(authHeader, 1, Len(BEARER)) = BEARER
    THEN trim(SubSeq(authHeader, Len(BEARER) + 1, Len(authHeader)))
    ELSE <<>>

\* the body of the profile query's answer; text that is empty or no JSON
\* parses to null, of which every member read is undefined
NoProfile == [present |-> FALSE, app_data |-> AppNull]

Profile(app_data) == [present |-> TRUE, app_data |-> app_data]

ProfileBody(errors, profile) == [errors |-> errors, profile |-> profile]

parseJsonSafeBody(text) ==
    IF text.kind = "json" THEN text.body ELSE ProfileBody(<<>>, NoProfile)

\* fetchAuthorizerProfile after its fetch: the profile, or a thrown 401
fetchAuthorizerProfile(response) ==
    LET body == parseJsonSafeBody(response.text) IN
    IF response.net = "reject" THEN [threw |-> TRUE, profile |-> NoProfile]
    ELSE IF ~response.ok \/ body.errors # <<>> THEN [threw |-> TRUE, profile |-> NoProfile]
    ELSE IF ~body.profile.present THEN [threw |-> TRUE, profile |-> NoProfile]
    ELSE [threw |-> FALSE, profile |-> body.profile]

\* a JavaScript number: NaN, or a sign, an integer part and whether a
\* fraction follows it
NaN == [nan |-> TRUE, neg |-> FALSE, int |-> 0, frac |-> FALSE]

Num(neg, int, frac) == [nan |-> FALSE, neg |-> neg, int |-> int, frac |-> frac]

DigitValue(c) ==
    CASE c = "0" -> 0 [] c = "1" -> 1 [] c = "2" -> 2 [] c = "3" -> 3 [] c = "4" -> 4
      [] c = "5" -> 5 [] c = "6" -> 6 [] c = "7" -> 7 [] c = "8" -> 8 [] c = "9" -> 9

RECURSIVE digitsValue(_)
digitsValue(s) ==
    IF s = <<>> THEN 0
    ELSE 10 * digitsValue(SubSeq(s, 1, Len(s) - 1)) + DigitValue(s[Len(s)])

\* an unsigned decimal literal: digits, then possibly a point and digits
unsignedNumber(s) ==
    LET points == {i \in 1..Len(s) : s[i] = "."}
        point == IF points = {} THEN Len(s) + 1 ELSE CHOOSE i \in points : TRUE
        whole == SubSeq(s, 1, point - 1)
        fraction == SubSeq(s, point + 1, Len(s))
    IN  IF /\ Cardinality(points) <= 1
           /\ whole \o fraction # <<>>
           /\ \A i \in 1..Len(s) : i = point \/ s[i] \in DigitChars
        THEN Num(FALSE, digitsValue(whole), \E i \in 1..Len(fraction) : fraction[i] # "0")
        ELSE NaN

\* Number(value) of a string, a number, null or undefined: a string is
\* trimmed, "" is 0, a decimal literal with or without a sign is its value,
\* any other text is NaN
Number(value) ==
    LET s == trim(value.s)
        signed == s # <<>> /\ Head(s) \in {"-", "+"}
        n == unsignedNumber(IF signed THEN Tail(s) ELSE s)
    IN  CASE value.t = "undefined" -> NaN
          [] value.t = "null" -> Num(FALSE, 0, FALSE)
          [] s = <<>> -> Num(FALSE, 0, FALSE)
          [] OTHER -> [n EXCEPT !.neg = ~n.nan /\ signed /\ Head(s) = "-"]

\* n < 0
lessThanZero(n) == n.neg /\ (n.int > 0 \/ n.frac)

\* n > k, for an integer k >= 0
greaterThan(n, k) == ~n.neg /\ (n.int > k \/ (n.int = k /\ n.frac))

\* isi_score as stored: null or the number
NoScore == [null |-> TRUE, n |-> Num(FALSE, 0, FALSE)]

Score(n) == [null |-> FALSE, n |-> n]

\* isiScore === "" || isiScore === null || isiScore === undefined ? null : Number(isiScore)
isiOf(isiScore) ==
    IF Nullish(isiScore) \/ isiScore = JStr(<<>>) THEN NoScore ELSE Score(Number(isiScore))

\* isi !== null && (isi < 0 || isi > 28)
isiRejected_withoutIsFinite(isi) ==
    ~isi.null /\ ~isi.n.nan /\ (lessThanZero(isi.n) \/ greaterThan(isi.n, 28))

\* isi !== null && (!Number.isFinite(isi) || isi < 0 || isi > 28)
isiRejected(isi) ==
    ~isi.null /\ (isi.n.nan \/ lessThanZero(isi.n) \/ greaterThan(isi.n, 28))

----------------------------------------------------------------------------
(* State *)

VARIABLES
    env,              \* process.env: which of the two credentials is set
    providerRev,      \* the revision of routes/provider.js that is mounted
    signup,           \* the POST /api/provider/signup request being handled
    patientsRev,      \* the revision of routes/patients.js that is mounted
    authorizer_users, \* the table authorizer_users, in storage order
    patients,         \* the table patients, in insertion order
    nextId,           \* the sequence behind patients.id
    intake,           \* the /api/patients request being handled
    retry             \* a second /api/patients request, handled at the same time

vars ==
    <<env, providerRev, signup, patientsRev, authorizer_users, patients, nextId, intake,
      retry>>

signupVars == <<env, providerRev, signup>>

patientsVars == <<patientsRev, authorizer_users, patients, nextId, intake, retry>>

ProviderRevs == {"routes/provider.js", "unnamed/part_000"}

----------------------------------------------------------------------------
(* routes/provider.js: the signup route *)

NoResponse ==
    [sent |-> FALSE, status |-> 0, message |-> <<>>, code |-> "", fields |-> <<>>,
     details |-> NoDetails, healthie |-> Returned(FALSE, <<>>, FALSE, <<>>),
     authorizer |-> Returned(FALSE, <<>>, FALSE, <<>>)]

\* res.status(400).json({ message: "Missing required fields.", fields: missing })
MissingFieldsResponse(missing) ==
    [NoResponse EXCEPT !.sent = TRUE, !.status = 400, !.message = MISSING_FIELDS,
                       !.fields = missing]

\* res.json({ healthie, authorizer })
OkResponse(healthie, authorizer) ==
    [NoResponse EXCEPT !.sent = TRUE, !.status = 200, !.healthie = healthie,
                       !.authorizer = authorizer]

\* handleApiError(res, error)
handleApiError(error) ==
    [NoResponse EXCEPT
        !.sent = TRUE,
        !.status = IF error.status # 0 THEN error.status ELSE 500,
        !.message = IF error.message # <<>> THEN error.message ELSE UNABLE_PROVIDER,
        !.code = IF error.code # "" THEN error.code ELSE "PROVIDER_SIGNUP_FAILED",
        !.details = error.details]

NoPayload ==
    [firstName |-> JUndefined, lastName |-> JUndefined, practiceName |-> JUndefined,
     npi |-> JUndefined, email |-> JUndefined, phone |-> JUndefined,
     password |-> JUndefined]

\* no request yet
Idle ==
    [pc |-> "idle", payload |-> NoPayload, input |-> normalizeSignupInput(NoPayload),
     events |-> <<>>, calls |-> <<>>, healthieResponse |-> Rejected,
     healthie |-> Returned(FALSE, <<>>, FALSE, <<>>),
     authorizerResponse |-> Rejected, res |-> NoResponse]

\* createReferringProvider(input) as the mounted revision defines it
createReferringProvider(rev, response) ==
    IF rev = "routes/provider.js" THEN createReferringProvider_provider(response)
    ELSE createReferringProvider_part_000(response)

\* the request createAuthorizerUser fetches with, as the mounted revision builds it
AuthorizerRequest(rev, input, healthie) ==
    IF rev = "routes/provider.js" THEN AuthorizerRequest_provider(input)
    ELSE AuthorizerRequest_part_000(input, IF healthie.hasId THEN healthie.id
                                           ELSE String(JUndefined))

\* the mutation is posted before the credential is looked at
signupReceived_fetchBeforeRequireEnv(e, payload) ==
    LET input == normalizeSignupInput(payload)
        missing == validateFields(input, RequiredFields)
        s == [Idle EXCEPT !.payload = payload, !.input = input]
    IN  IF missing # <<>>
        THEN [s EXCEPT !.pc = "done", !.res = MissingFieldsResponse(missing)]
        ELSE IF ~e.HEALTHIE_AUTHORIZATION
        THEN [s EXCEPT !.pc = "done",
                       !.events = <<"createReferringProvider", "fetch", "throw">>,
                       !.calls = <<HealthieRequest(input)>>,
                       !.res = handleApiError(requireEnv(HEALTHIE_AUTHORIZATION))]
        ELSE [s EXCEPT !.pc = "healthie_fetch",
                       !.events = <<"createReferringProvider", "fetch">>,
                       !.calls = <<HealthieRequest(input)>>]

\* the handler up to its first await: normalize, validate, then
\* createReferringProvider up to its fetch
signupReceived(e, payload) ==
    LET input == normalizeSignupInput(payload)
        missing == validateFields(input, RequiredFields)
        s == [Idle EXCEPT !.payload = payload, !.input = input]
    IN  IF missing # <<>>
        THEN [s EXCEPT !.pc = "done", !.res = MissingFieldsResponse(missing)]
        ELSE IF ~e.HEALTHIE_AUTHORIZATION
        THEN [s EXCEPT !.pc = "done",
                       !.events = <<"createReferringProvider", "throw">>,
                       !.res = handleApiError(requireEnv(HEALTHIE_AUTHORIZATION))]
        ELSE [s EXCEPT !.pc = "healthie_fetch",
                       !.events = <<"createReferringProvider", "fetch">>,
                       !.calls = <<HealthieRequest(input)>>]

\* createAuthorizerUser is entered although createReferringProvider threw
signupAfterHealthie_ignoringFailure(e, rev, s, response) ==
    LET healthie == createReferringProvider(rev, response)
        t == [s EXCEPT !.healthieResponse = response,
                       !.events = s.events \o
                           <<IF healthie.threw THEN "throw" ELSE "return",
                             "createAuthorizerUser">>,
                       !.healthie = healthie]
    IN  IF ~e.AUTHORIZER_ADMIN_SECRET
        THEN [t EXCEPT !.pc = "done", !.events = t.events \o <<"throw">>,
                       !.res = handleApiError(requireEnv(AUTHORIZER_ADMIN_SECRET))]
        ELSE [t EXCEPT !.pc = "authorizer_fetch", !.events = t.events \o <<"fetch">>,
                       !.calls = Append(s.calls, AuthorizerRequest(rev, s.input, healthie))]

\* the handler from the settling of Healthie's fetch to its next await:
\* the rest of createReferringProvider, then createAuthorizerUser up to its fetch
signupAfterHealthie(e, rev, s, response) ==
    LET healthie == createReferringProvider(rev, response)
        t == [s EXCEPT !.healthieResponse = response]
    IN  IF healthie.threw
        THEN [t EXCEPT !.pc = "done", !.events = s.events \o <<"throw">>,
                       !.res = handleApiError(healthie.error)]
        ELSE IF ~e.AUTHORIZER_ADMIN_SECRET
        THEN [t EXCEPT !.pc = "done",
                       !.events = s.events \o <<"return", "createAuthorizerUser", "throw">>,
                       !.healthie = healthie,
                       !.res = handleApiError(requireEnv(AUTHORIZER_ADMIN_SECRET))]
        ELSE [t EXCEPT !.pc = "authorizer_fetch",
                       !.events = s.events \o <<"return", "createAuthorizerUser", "fetch">>,
                       !.calls = Append(s.calls, AuthorizerRequest(rev, s.input, healthie)),
                       !.healthie = healthie]

\* the handler from the settling of Authorizer's fetch to its response
signupAfterAuthorizer(s, response) ==
    LET authorizer == createAuthorizerUser(response)
        t == [s EXCEPT !.pc = "done", !.authorizerResponse = response]
    IN  IF authorizer.threw
        THEN [t EXCEPT !.events = s.events \o <<"throw">>,
                       !.res = handleApiError(authorizer.error)]
        ELSE [t EXCEPT !.events = s.events \o <<"return">>,
                       !.res = OkResponse(s.healthie, authorizer)]

----------------------------------------------------------------------------
(* routes/patients.js and its revisions: the routes *)

PatientsRevs == {"unnamed/part_001", "unnamed/part_002"}

\* req.body of POST /api/patients/public; a member left out is undefined
IntakeBody(practiceName, name, dateOfBirth, mobile, email, isiScore, suggestedTreatments) ==
    [practiceName |-> practiceName, name |-> name, dateOfBirth |-> dateOfBirth,
     mobile |-> mobile, email |-> email, isiScore |-> isiScore,
     suggestedTreatments |-> suggestedTreatments,
     provider_id |-> JUndefined, healthie_provider_id |-> JUndefined]

\* req.body of POST /api/patients
PostBody(provider_id, name, dateOfBirth, mobile, email, isiScore, suggestedTreatments) ==
    [IntakeBody(JUndefined, name, dateOfBirth, mobile, email, isiScore, suggestedTreatments)
       EXCEPT !.provider_id = provider_id]

\* req.body of POST /api/patients/public as routes/patients.js reads it
DirectBody(healthie_provider_id, practiceName, name, dateOfBirth, mobile, email, isiScore, tx) ==
    [IntakeBody(practiceName, name, dateOfBirth, mobile, email, isiScore, tx)
       EXCEPT !.healthie_provider_id = healthie_provider_id]

\* a body with the members of all three routes
AnyBody(provider_id, healthie_provider_id, practiceName, name, dateOfBirth, email, isiScore, tx) ==
    [IntakeBody(practiceName, name, dateOfBirth, JStr(<<"5","5","5">>), email, isiScore, tx)
       EXCEPT !.provider_id = provider_id, !.healthie_provider_id = healthie_provider_id]

NoBody ==
    IntakeBody(JUndefined, JUndefined, JUndefined, JUndefined, JUndefined, JUndefined,
               Treatments(TRUE, <<>>))

\* the values of an INSERT INTO patients, and the row once it has its id
Row(provider_id, full_name, date_of_birth, mobile, email, isi_score, flags) ==
    [id |-> 0, provider_id |-> provider_id, full_name |-> full_name,
     date_of_birth |-> date_of_birth, mobile |-> mobile, email |-> email,
     isi_score |-> isi_score, tx |-> flags]

NoRow ==
    Row(<<>>, <<>>, JUndefined, <<>>, JNull, NoScore, treatmentsToFlags(Treatments(TRUE, <<>>)))

\* what a route answers: a status with {error}, {patients, provider_id} or
\* {patientId, status: "created", practiceName, healthie_provider_id}
NoAnswer ==
    [sent |-> FALSE, status |-> 0, error |-> "", patientId |-> 0, provider_id |-> <<>>,
     patients |-> <<>>, practiceName |-> <<>>]

ErrorAnswer(status, error) ==
    [NoAnswer EXCEPT !.sent = TRUE, !.status = status, !.error = error]

\* no request yet; queries are the statements sent to the pool and settled how
\* each of them ended
NoIntake ==
    [pc |-> "idle", route |-> "", authorization |-> JUndefined, body |-> NoBody,
     fetches |-> 0, queries |-> <<>>, settled |-> <<>>, profileResponse |-> Rejected,
     providerId |-> <<>>, row |-> NoRow, res |-> NoAnswer]

\* SELECT * FROM patients WHERE provider_id = $1 ORDER BY id DESC
RECURSIVE selectPatients(_, _)
selectPatients(rows, providerId) ==
    IF rows = <<>> THEN <<>>
    ELSE selectPatients(Tail(rows), providerId) \o
         (IF Head(rows).provider_id = providerId THEN <<Head(rows)>> ELSE <<>>)

\* SELECT app_data FROM authorizer_users WHERE app_data IS NOT NULL
selectAppData(rows) == SelectSeq(rows, LAMBDA row : row.app_data.kind # "null")

\* GET /api/patients up to its first await: the token, then the profile fetch
getReceived(authorization) ==
    LET s == [NoIntake EXCEPT !.route = "GET /", !.authorization = authorization] IN
    IF getBearerToken(authorization) = <<>>
    THEN [s EXCEPT !.pc = "done", !.res = ErrorAnswer(401, "Missing access token.")]
    ELSE [s EXCEPT !.pc = "profile_fetch", !.fetches = 1]

\* the provider id is not required
getAfterProfile_withoutProviderCheck(s, response) ==
    LET fetched == fetchAuthorizerProfile(response)
        providerId == extractHealthieProviderId(parseAppData(fetched.profile.app_data))
        t == [s EXCEPT !.profileResponse = response]
    IN  IF fetched.threw
        THEN [t EXCEPT !.pc = "done", !.res = ErrorAnswer(401, "Invalid or expired token.")]
        ELSE [t EXCEPT !.pc = "select_patients", !.providerId = providerId,
                       !.queries = <<"SELECT patients">>]

\* GET /api/patients from the settling of the profile fetch to the query
getAfterProfile(s, response) ==
    LET fetched == fetchAuthorizerProfile(response)
        providerId == extractHealthieProviderId(parseAppData(fetched.profile.app_data))
        t == [s EXCEPT !.profileResponse = response]
    IN  IF fetched.threw
        THEN [t EXCEPT !.pc = "done", !.res = ErrorAnswer(401, "Invalid or expired token.")]
        ELSE IF providerId = <<>>
        THEN [t EXCEPT !.pc = "done",
                       !.res = ErrorAnswer(403, "No healthie_provider_id found for this user.")]
        ELSE [t EXCEPT !.pc = "select_patients", !.providerId = providerId,
                       !.queries = <<"SELECT patients">>]

\* GET /api/patients from the settling of its query to the answer
getAfterSelect(s, ok, rows) ==
    IF ~ok THEN [s EXCEPT !.pc = "done", !.settled = <<"error">>,
                          !.res = ErrorAnswer(500, "Server error")]
    ELSE [s EXCEPT !.pc = "done", !.settled = <<"ok">>,
                   !.res = [NoAnswer EXCEPT !.sent = TRUE, !.status = 200,
                                            !.patients = selectPatients(rows, s.providerId),
                                            !.provider_id = s.providerId]]

\* the aliases as unnamed/part_002 reads them in its loop; <<>> is no id
inlineHealthieProviderId(data) ==
    LET hid == IF data.present
               THEN coalesce(data.obj.healthie_provider_id, data.obj.healthie_providerId,
                             data.obj.healthie_id)
               ELSE JUndefined
    IN  IF ~Nullish(hid) /\ trim(String(hid)) # <<>> THEN trim(String(hid)) ELSE <<>>

\* typeof row.app_data === "string" ? parseJsonSafe(row.app_data) : row.app_data
rowData(row) ==
    CASE row.app_data.kind \in {"json", "text"} -> parseJsonSafeData(row.app_data)
      [] row.app_data.kind = "object" -> Data(row.app_data.obj)
      [] OTHER -> NoData

\* typeof data?.practice_name === "string" ? normalizePracticeName(...) : ""
rowPractice(row) ==
    IF rowData(row).present /\ rowData(row).obj.practice_name.t = "string"
    THEN normalizePracticeName(rowData(row).obj.practice_name)
    ELSE <<>>

rowProviderId(rev, row) ==
    IF rev = "unnamed/part_001" THEN extractHealthieProviderId(rowData(row))
    ELSE inlineHealthieProviderId(rowData(row))

\* the loop without its break: the last matching row with an id is kept
RECURSIVE findHealthieProviderId_lastMatch(_, _, _)
findHealthieProviderId_lastMatch(rev, rows, wantedPractice) ==
    IF rows = <<>> THEN <<>>
    ELSE LET row == rows[Len(rows)] IN
         IF /\ rowPractice(row) # <<>>
            /\ rowPractice(row) = wantedPractice
            /\ rowProviderId(rev, row) # <<>>
         THEN rowProviderId(rev, row)
         ELSE findHealthieProviderId_lastMatch(rev, SubSeq(rows, 1, Len(rows) - 1),
                                               wantedPractice)

\* the loop over providerRows.rows; <<>> is null
RECURSIVE findHealthieProviderId(_, _, _)
findHealthieProviderId(rev, rows, wantedPractice) ==
    IF rows = <<>> THEN <<>>
    ELSE LET row == Head(rows) IN
         IF /\ rowPractice(row) # <<>>
            /\ rowPractice(row) = wantedPractice
            /\ rowProviderId(rev, row) # <<>>
         THEN rowProviderId(rev, row)
         ELSE findHealthieProviderId(rev, Tail(rows), wantedPractice)

\* !name || !name.trim(): "400" when it holds, "TypeError" when name is
\* truthy and has no trim, "ok" otherwise
trimmedRequired(value) ==
    IF ~Truthy(value) THEN "400"
    ELSE IF value.t # "string" THEN "TypeError"
    ELSE IF trim(value.s) = <<>> THEN "400" ELSE "ok"

\* POST /api/patients/public up to its first await: the required members,
\* then the query of authorizer_users
publicReceived(body) ==
    LET s == [NoIntake EXCEPT !.route = "POST /public", !.body = body]
        bad(error) == [s EXCEPT !.pc = "done", !.res = ErrorAnswer(400, error)]
        thrown == [s EXCEPT !.pc = "done", !.res = ErrorAnswer(500, "Server error")]
    IN  IF ~Truthy(body.practiceName) \/ trim(String(body.practiceName)) = <<>>
        THEN bad("practiceName is required")
        ELSE IF trimmedRequired(body.name) = "TypeError" THEN thrown
        ELSE IF trimmedRequired(body.name) = "400" THEN bad("name is required")
        ELSE IF ~Truthy(body.dateOfBirth) THEN bad("dateOfBirth is required")
        ELSE IF trimmedRequired(body.mobile) = "TypeError" THEN thrown
        ELSE IF trimmedRequired(body.mobile) = "400" THEN bad("mobile is required")
        ELSE [s EXCEPT !.pc = "select_accounts",
                       !.queries = <<"SELECT authorizer_users">>]

\* POST /api/patients/public from the settling of that query to the INSERT
publicAfterAccounts(rev, r, ok, accounts) ==
    LET body == r.body
        healthieProviderId ==
            findHealthieProviderId(rev, selectAppData(accounts),
                                   normalizePracticeName(body.practiceName))
        isi == isiOf(body.isiScore)
        s == [r EXCEPT !.settled = <<"ok">>, !.providerId = healthieProviderId]
        thrown == [s EXCEPT !.pc = "done", !.res = ErrorAnswer(500, "Server error")]
    IN  IF ~ok
        THEN [r EXCEPT !.pc = "done", !.settled = <<"error">>,
                       !.res = ErrorAnswer(500, "Server error")]
        ELSE IF healthieProviderId = <<>>
        THEN [s EXCEPT !.pc = "done",
                       !.res = ErrorAnswer(404,
                           "Practice not found (no healthie_provider_id stored for that practice).")]
        ELSE IF isiRejected(isi)
        THEN [s EXCEPT !.pc = "done", !.res = ErrorAnswer(400, "isiScore must be 0-28")]
        ELSE IF Truthy(body.email) /\ body.email.t # "string" THEN thrown
        ELSE [s EXCEPT !.pc = "insert",
                       !.queries = Append(s.queries, "INSERT patients"),
                       !.row = Row(healthieProviderId, trim(body.name.s), body.dateOfBirth,
                                   trim(body.mobile.s),
                                   IF Truthy(body.email) /\ trim(body.email.s) # <<>>
                                   THEN JStr(trim(body.email.s)) ELSE JNull,
                                   isi, treatmentsToFlags(body.suggestedTreatments))]

\* POST /api/patients/public from the settling of the INSERT to the answer
publicAfterInsert(s, ok, id) ==
    IF ~ok THEN [s EXCEPT !.pc = "done", !.settled = Append(s.settled, "error"),
                          !.res = ErrorAnswer(500, "Server error")]
    ELSE [s EXCEPT !.pc = "done", !.settled = Append(s.settled, "ok"),
                   !.res = [NoAnswer EXCEPT !.sent = TRUE, !.status = 201,
                                            !.patientId = id,
                                            !.practiceName = trim(String(s.body.practiceName)),
                                            !.provider_id = s.providerId]]

\* (email || "").trim() || null
emailOf(email) ==
    IF Truthy(email) /\ trim(email.s) # <<>> THEN JStr(trim(email.s)) ELSE JNull

\* the required members and the score of POST /api/patients and of the
\* POST /api/patients/public of routes/patients.js, after the id: "" when
\* the request goes on, "TypeError", or the error of the 400
rejection(body) ==
    IF trimmedRequired(body.name) = "TypeError" THEN "TypeError"
    ELSE IF trimmedRequired(body.name) = "400" THEN "name is required"
    ELSE IF ~Truthy(body.dateOfBirth) THEN "dateOfBirth is required"
    ELSE IF trimmedRequired(body.mobile) = "TypeError" THEN "TypeError"
    ELSE IF trimmedRequired(body.mobile) = "400" THEN "mobile is required"
    ELSE IF isiRejected(isiOf(body.isiScore)) THEN "isiScore must be 0-28"
    ELSE IF Truthy(body.email) /\ body.email.t # "string" THEN "TypeError"
    ELSE ""

\* the handler after the id has been read: an answer, or the INSERT
insertOrReject(s, provider_id) ==
    LET body == s.body IN
    IF rejection(body) = "TypeError"
    THEN [s EXCEPT !.pc = "done", !.res = ErrorAnswer(500, "Server error")]
    ELSE IF rejection(body) # ""
    THEN [s EXCEPT !.pc = "done", !.res = ErrorAnswer(400, rejection(body))]
    ELSE [s EXCEPT !.pc = "insert",
                   !.providerId = provider_id,
                   !.queries = <<"INSERT patients">>,
                   !.row = Row(provider_id, trim(body.name.s), body.dateOfBirth,
                               trim(body.mobile.s), emailOf(body.email),
                               isiOf(body.isiScore),
                               treatmentsToFlags(body.suggestedTreatments))]

\* POST /api/patients up to its await: routes/patients.js stores provider_id
\* as it came, the later revisions String(provider_id).trim()
postReceived(rev, body) ==
    LET s == [NoIntake EXCEPT !.route = "POST /", !.body = body] IN
    IF ~Truthy(body.provider_id)
    THEN [s EXCEPT !.pc = "done", !.res = ErrorAnswer(400, "provider_id is required")]
    ELSE insertOrReject(s, IF rev = "routes/patients.js" THEN String(body.provider_id)
                           ELSE trim(String(body.provider_id)))

\* POST /api/patients from the settling of the INSERT to the answer
postAfterInsert(s, ok, id) ==
    IF ~ok THEN [s EXCEPT !.pc = "done", !.settled = Append(s.settled, "error"),
                          !.res = ErrorAnswer(500, "Server error")]
    ELSE [s EXCEPT !.pc = "done", !.settled = Append(s.settled, "ok"),
                   !.res = [NoAnswer EXCEPT !.sent = TRUE, !.status = 201, !.patientId = id]]

\* POST /api/patients/public of routes/patients.js up to its await
directReceived(body) ==
    LET s == [NoIntake EXCEPT !.route = "POST /public", !.body = body] IN
    IF ~Truthy(body.healthie_provider_id) \/ trim(String(body.healthie_provider_id)) = <<>>
    THEN [s EXCEPT !.pc = "done",
                   !.res = ErrorAnswer(400, "healthie_provider_id is required")]
    ELSE insertOrReject(s, trim(String(body.healthie_provider_id)))

\* POST /api/patients/public of routes/patients.js from the settling of the
\* INSERT to the answer: (practiceName || "").trim() throws on a value that
\* is truthy and no string
directAfterInsert(s, ok, id) ==
    IF ~ok THEN [s EXCEPT !.pc = "done", !.settled = Append(s.settled, "error"),
                          !.res = ErrorAnswer(500, "Server error")]
    ELSE IF Truthy(s.body.practiceName) /\ s.body.practiceName.t # "string"
    THEN [s EXCEPT !.pc = "done", !.settled = Append(s.settled, "ok"),
                   !.res = ErrorAnswer(500, "Server error")]
    ELSE [s EXCEPT !.pc = "done", !.settled = Append(s.settled, "ok"),
                   !.res = [NoAnswer EXCEPT
                              !.sent = TRUE, !.status = 201, !.patientId = id,
                              !.practiceName = IF Truthy(s.body.practiceName)
                                               THEN trim(s.body.practiceName.s) ELSE <<>>,
                              !.provider_id = s.providerId]]

\* POST /api/patients/public arrives at the mounted revision
publicRoute(rev, body) ==
    IF rev = "routes/patients.js" THEN directReceived(body) ELSE publicReceived(body)

\* the handler that awaits the INSERT goes on
afterInsert(rev, s, ok, id) ==
    IF s.route = "POST /" THEN postAfterInsert(s, ok, id)
    ELSE IF rev = "routes/patients.js" THEN directAfterInsert(s, ok, id)
    ELSE publicAfterInsert(s, ok, id)

\* the row is written over the last one
insertPatient_replacingLast(rows, row, ok, id) ==
    IF ~ok THEN rows
    ELSE IF rows = <<>> THEN <<[row EXCEPT !.id = id]>>
    ELSE [rows EXCEPT ![Len(rows)] = [row EXCEPT !.id = id]]

\* a row that is already there, but for its id, is not inserted again
insertPatient_deduplicating(rows, row, ok, id) ==
    IF ok /\ \A i \in 1..Len(rows) : [rows[i] EXCEPT !.id = 0] # row
    THEN Append(rows, [row EXCEPT !.id = id]) ELSE rows

\* INSERT INTO patients ... RETURNING id: the table after the statement
insertPatient(rows, row, ok, id) ==
    IF ok THEN Append(rows, [row EXCEPT !.id = id]) ELSE rows

----------------------------------------------------------------------------
(* The requests and upstream answers the model draws from *)

TextValues(word) == {JUndefined, JStr(<<" ">>), JStr(<<" ">> \o word \o <<" ">>)}

SignupPayloads ==
    [firstName : TextValues(<<"A","n","n">>),
     lastName : TextValues(<<"L","e","e">>),
     practiceName : TextValues(<<"C","l","i","n","i","c"," ","A">>),
     npi : {JUndefined, JStr(<<"-"," ">>), JStr(<<"1","2","-","3">>)},
     email : TextValues(<<"a","@","b">>),
     phone : {JNum(<<"5">>), JStr(<<"(",")">>), JStr(<<"(","9",")"," ","4","-","6">>)},
     password : {JUndefined, JStr(<<>>), JStr(<<" ">>), JStr(<<"p","w">>)}]

TextKinds == {"empty", "invalid"}

M_npi == <<"N","P","I"," ","t","a","k","e","n">>

M_bad == <<"b","a","d">>

HealthieResults ==
    {NoResult} \cup
    {Result(referring, duplicated, messages) :
        referring \in {NoPhysician, Physician(JNull), Physician(JStr(<<"7","7">>)),
                       Physician(JNum(<<"7","8">>))},
        duplicated \in {NoPhysician, Physician(JNull), Physician(JStr(<<>>)),
                        Physician(JStr(<<"5","5">>))},
        messages \in {<<>>, <<Entry(<<>>), Entry(M_npi)>>}}

HealthieResponses ==
    {Rejected} \cup
    {Response(ok, Text(kind, EmptyBody)) : ok \in BOOLEAN, kind \in TextKinds} \cup
    {Response(ok, Text("json", Body(errors, message, result, FALSE))) :
        ok \in BOOLEAN,
        errors \in {<<>>, <<Entry(M_npi)>>, <<Entry(<<>>)>>},
        message \in {<<>>, M_bad},
        result \in HealthieResults}

\* messages that hold one of the three duplicate patterns, in some letter case
M_UserExists == <<"U","s","e","r"," ","E","x","i","s","t","s">>

M_DUPLICATE == <<"D","U","P","L","I","C","A","T","E"," ","k","e","y">>

M_already == <<"e","m","a","i","l"," ","a","l","r","e","a","d","y"," ","e","x","i","s","t","s">>

\* messages that hold none
M_exists == <<"e","x","i","s","t","s">>

M_duplicat == <<"d","u","p","l","i","c","a","t"," ","e">>

M_alreadyexists == <<"a","l","r","e","a","d","y","e","x","i","s","t","s">>

AuthorizerResponses ==
    {Rejected} \cup
    {Response(ok, Text(kind, EmptyBody)) : ok \in BOOLEAN, kind \in TextKinds} \cup
    {Response(ok, Text("json", Body(errors, message, NoResult, data))) :
        ok \in BOOLEAN,
        errors \in {<<>>} \cup
                   {<<Entry(m)>> : m \in {<<>>, M_UserExists, M_DUPLICATE, M_already,
                                          M_exists, M_duplicat, M_alreadyexists}},
        message \in {<<>>, M_UserExists, M_bad},
        data \in BOOLEAN}

----------------------------------------------------------------------------
(* Actions of the signup route *)

Init ==
    /\ env \in [HEALTHIE_AUTHORIZATION : BOOLEAN, AUTHORIZER_ADMIN_SECRET : BOOLEAN]
    /\ providerRev \in ProviderRevs
    /\ signup = Idle
    /\ patientsRev = "unnamed/part_001"
    /\ authorizer_users = <<>>
    /\ patients = <<>>
    /\ nextId = 1
    /\ intake = NoIntake
    /\ retry = NoIntake

\* POST /api/provider/signup arrives
SignupRequest ==
    /\ signup.pc = "idle"
    /\ \E payload \in SignupPayloads : signup' = signupReceived(env, payload)
    /\ UNCHANGED <<env, providerRev>>
    /\ UNCHANGED patientsVars

\* the fetch of createReferringProvider settles
HealthieSettles ==
    /\ signup.pc = "healthie_fetch"
    /\ \E response \in HealthieResponses :
          signup' = signupAfterHealthie(env, providerRev, signup, response)
    /\ UNCHANGED <<env, providerRev>>
    /\ UNCHANGED patientsVars

\* the fetch of createAuthorizerUser settles
AuthorizerSettles ==
    /\ signup.pc = "authorizer_fetch"
    /\ \E response \in AuthorizerResponses :
          signup' = signupAfterAuthorizer(signup, response)
    /\ UNCHANGED <<env, providerRev>>
    /\ UNCHANGED patientsVars

\* the response has been sent: the handler and its locals are gone
SignupEnds ==
    /\ signup.pc = "done"
    /\ signup' = Idle
    /\ UNCHANGED <<env, providerRev>>
    /\ UNCHANGED patientsVars

Next == SignupRequest \/ HealthieSettles \/ AuthorizerSettles \/ SignupEnds

Spec == Init /\ [][Next]_vars

----------------------------------------------------------------------------
(* The patients routes: requests, stored accounts and answers *)

MaxAccounts == 2

MaxRows == 1

W_77 == <<"7","7">>

W_66 == <<"6","6">>

W_88 == <<"8","8">>

P_ClinicA == <<" ","C","l","i","n","i","c"," ","A"," ">>

P_CLINICA == <<"C","L","I","N","I","C"," ","A">>

P_clinica == <<"c","l","i","n","i","c"," ","a"," ">>

P_B == <<"B">>

P_zz == <<"z","z">>

\* app_data as found in authorizer_users
StoredAppData ==
    {AppData("object", AppObject(JStr(P_ClinicA), JStr(W_77), JUndefined, JUndefined)),
     AppData("object", AppObject(JStr(P_CLINICA), JUndefined, JUndefined, JUndefined)),
     AppData("json", AppObject(JStr(P_clinica), JNull, JUndefined, JNum(W_88))),
     AppData("object", AppObject(JStr(P_B), JStr(<<" ">>), JUndefined, JStr(W_66))),
     AppNull}

\* app_data as the profile query returns it
ProfileAppData ==
    StoredAppData \cup
    {AppData("object", AppObject(JStr(P_B), JUndefined, JStr(<<" ">> \o W_77), JStr(W_66))),
     AppData("text", NoAppObject),
     AppData("number", NoAppObject)}

Accounts ==
    UNION {[1..n -> [app_data : StoredAppData]] : n \in 0..MaxAccounts}

ProfileResponses ==
    {Rejected,
     Response(TRUE, Text("invalid", ProfileBody(<<>>, NoProfile))),
     Response(TRUE, Text("json", ProfileBody(<<>>, NoProfile))),
     Response(TRUE, Text("json", ProfileBody(<<M_bad>>, Profile(AppNull))))}
    \cup {Response(ok, Text("json", ProfileBody(<<>>, Profile(app_data)))) :
             ok \in BOOLEAN, app_data \in ProfileAppData}

Authorizations ==
    {JUndefined, JStr(<<"t","o","k">>), JStr(BEARER \o <<" ">>),
     JStr(BEARER \o <<"t","o","k">>)}

IntakeBodies ==
    {IntakeBody(practiceName, name, dateOfBirth, JStr(<<"5","5","5">>), JStr(<<"a","@","b">>),
                isiScore, Treatments(TRUE, <<CBTI>>)) :
        practiceName \in {JUndefined, JStr(P_clinica), JStr(P_B), JStr(P_zz)},
        name \in {JStr(<<" ","A","l"," ">>), JNum(<<"5">>)},
        dateOfBirth \in {JStr(<<"d">>), JUndefined},
        isiScore \in {JUndefined, JStr(<<"2","9">>)}}

InitPatients ==
    /\ env = [HEALTHIE_AUTHORIZATION |-> TRUE, AUTHORIZER_ADMIN_SECRET |-> TRUE]
    /\ providerRev = "unnamed/part_000"
    /\ signup = Idle
    /\ patientsRev \in PatientsRevs
    /\ authorizer_users \in Accounts
    /\ patients = <<>>
    /\ nextId = 1
    /\ intake = NoIntake
    /\ retry = NoIntake

\* GET /api/patients arrives; only unnamed/part_001 has the route
GetRequest ==
    /\ intake.pc = "idle"
    /\ patientsRev = "unnamed/part_001"
    /\ \E authorization \in Authorizations : intake' = getReceived(authorization)
    /\ UNCHANGED <<patientsRev, authorizer_users, patients, nextId, retry>>
    /\ UNCHANGED signupVars

\* the fetch of fetchAuthorizerProfile settles
ProfileSettles ==
    /\ intake.pc = "profile_fetch"
    /\ \E response \in ProfileResponses : intake' = getAfterProfile(intake, response)
    /\ UNCHANGED <<patientsRev, authorizer_users, patients, nextId, retry>>
    /\ UNCHANGED signupVars

\* the SELECT of GET /api/patients settles
SelectPatientsSettles ==
    /\ intake.pc = "select_patients"
    /\ \E ok \in BOOLEAN : intake' = getAfterSelect(intake, ok, patients)
    /\ UNCHANGED <<patientsRev, authorizer_users, patients, nextId, retry>>
    /\ UNCHANGED signupVars

\* POST /api/patients/public arrives
PublicRequest ==
    /\ intake.pc = "idle"
    /\ Len(patients) < MaxRows
    /\ \E body \in IntakeBodies : intake' = publicReceived(body)
    /\ UNCHANGED <<patientsRev, authorizer_users, patients, nextId, retry>>
    /\ UNCHANGED signupVars

\* the SELECT over authorizer_users settles
SelectAccountsSettles ==
    /\ intake.pc = "select_accounts"
    /\ \E ok \in BOOLEAN :
          intake' = publicAfterAccounts(patientsRev, intake, ok, authorizer_users)
    /\ UNCHANGED <<patientsRev, authorizer_users, patients, nextId, retry>>
    /\ UNCHANGED signupVars

\* the INSERT settles: with the new row and its id, or with an error
InsertSettles ==
    /\ intake.pc = "insert"
    /\ \E ok \in BOOLEAN :
          /\ intake' = afterInsert(patientsRev, intake, ok, nextId)
          /\ patients' = insertPatient(patients, intake.row, ok, nextId)
          /\ nextId' = IF ok THEN nextId + 1 ELSE nextId
    /\ UNCHANGED <<patientsRev, authorizer_users, retry>>
    /\ UNCHANGED signupVars

\* the response has been sent: the handler and its locals are gone
IntakeEnds ==
    /\ intake.pc = "done"
    /\ intake' = NoIntake
    /\ UNCHANGED <<patientsRev, authorizer_users, patients, nextId, retry>>
    /\ UNCHANGED signupVars

NextPatients ==
    \/ GetRequest
    \/ ProfileSettles
    \/ SelectPatientsSettles
    \/ PublicRequest
    \/ SelectAccountsSettles
    \/ InsertSettles
    \/ IntakeEnds

SpecPatients == InitPatients /\ [][NextPatients]_vars

----------------------------------------------------------------------------
(* Properties of the signup route *)

\* the request went past field validation
Validated == signup.pc # "idle" /\ ~(signup.res.sent /\ signup.res.status = 400)

\* the fetch of createReferringProvider has settled
HealthieSettled == Len(signup.events) >= 3

\* the fetch of createAuthorizerUser has settled
AuthorizerSettled == Len(signup.events) >= 6

AuthorizerCalls == {k \in 1..Len(signup.calls) : signup.calls[k].to = "authorizer"}

\* C1: past validation createReferringProvider is entered first;
\* createAuthorizerUser is entered only right after createReferringProvider
\* returned, its request is the second one sent, after Healthie's; and once
\* createReferringProvider threw, createAuthorizerUser is not entered and
\* nothing is sent to Authorizer.
C1_ClinicalBeforeIdentity ==
    LET ev == signup.events
        entered == {i \in 1..Len(ev) : ev[i] = "createAuthorizerUser"}
        clinicalThrew == \E i \in 1..Len(ev) :
                            /\ ev[i] = "throw"
                            /\ \A j \in 1..i : ev[j] # "createAuthorizerUser"
    IN  /\ Validated => (ev # <<>> /\ ev[1] = "createReferringProvider")
        /\ \A i \in entered :
              i >= 3 /\ ev[1] = "createReferringProvider" /\ ev[i - 1] = "return"
        /\ \A k \in AuthorizerCalls :
              k = 2 /\ signup.calls[1].to = "healthie" /\ entered # {}
        /\ clinicalThrew => (entered = {} /\ AuthorizerCalls = {})

\* both calls were made, one after the other
C1_Witness ==
    /\ signup.pc = "done"
    /\ signup.events = <<"createReferringProvider", "fetch", "return",
                         "createAuthorizerUser", "fetch", "return">>
    /\ Len(signup.calls) = 2

\* Healthie answered with a duplicate that has an id and no created record
DuplicateWithId(response) ==
    LET body == response.text.body IN
    /\ response.net = "ok" /\ response.ok /\ response.text.kind = "json"
    /\ body.errors = <<>> /\ body.result.present
    /\ ~body.result.referring_physician.present
    /\ body.result.duplicated_physician.present
    /\ body.result.duplicated_physician.id.t = "string"
    /\ body.result.duplicated_physician.id.s # <<>>

\* C2: after a duplicate with an id the identity client is still called, and
\* what is sent to Authorizer carries that id as the nickname.
C2_DuplicateIdForwarded ==
    (HealthieSettled /\ DuplicateWithId(signup.healthieResponse)) =>
        /\ "createAuthorizerUser" \in Range(signup.events)
        /\ \A k \in AuthorizerCalls :
              /\ "nickname" \in DOMAIN signup.calls[k].params
              /\ signup.calls[k].params.nickname =
                    signup.healthieResponse.text.body.result.duplicated_physician.id.s

AllBlank(s) == \A i \in 1..Len(s) : s[i] \in WhiteSpace

NoDigit(s) == \A i \in 1..Len(s) : s[i] \notin DigitChars

\* the fields that are empty once every field is trimmed (npi and phone
\* reduced to their digits, a value that is no string taken as empty)
EmptyWhenAllTrimmed(payload) ==
    {f \in Range(RequiredFields) :
        \/ payload[f].t # "string"
        \/ IF f \in {"npi", "phone"} THEN NoDigit(payload[f].s) ELSE AllBlank(payload[f].s)}

\* the same, the password taken as typed
EmptyPasswordAsTyped(payload) ==
    {f \in Range(RequiredFields) :
        \/ payload[f].t # "string"
        \/ CASE f \in {"npi", "phone"} -> NoDigit(payload[f].s)
             [] f = "password" -> payload[f].s = <<>>
             [] OTHER -> AllBlank(payload[f].s)}

\* C3 as stated: a payload with a field that is empty after trimming is
\* answered 400 with exactly those fields.
C3_AllTrimmed ==
    (signup.pc # "idle" /\ EmptyWhenAllTrimmed(signup.payload) # {}) =>
        /\ signup.res.sent /\ signup.res.status = 400
        /\ Range(signup.res.fields) = EmptyWhenAllTrimmed(signup.payload)

\* C3: a payload with a field that is empty after normalization, the password
\* not being trimmed, is answered 400 at once, before any call, with exactly
\* those fields, each once and in the order of the required fields.
C3_MissingFields ==
    LET missing == EmptyPasswordAsTyped(signup.payload) IN
    (signup.pc # "idle" /\ missing # {}) =>
        /\ signup.pc = "done" /\ signup.res.sent /\ signup.res.status = 400
        /\ signup.res.fields = SelectSeq(RequiredFields, LAMBDA f : f \in missing)
        /\ signup.calls = <<>> /\ signup.events = <<>>

\* a blank password beside a phone without digits: only the phone is listed
C3_Witness ==
    /\ signup.res.sent /\ signup.res.status = 400
    /\ signup.payload.password = JStr(<<" ">>)
    /\ signup.payload.phone = JStr(<<"(",")">>)
    /\ signup.res.fields = <<"phone">>

\* the id Healthie returned: the created record's, else the duplicate's
ReturnedId(response) ==
    LET result == response.text.body.result IN
    IF result.referring_physician.present /\ ~Nullish(result.referring_physician.id)
    THEN result.referring_physician.id.s
    ELSE result.duplicated_physician.id.s

\* C4: a 200 carries healthie.id, not empty and the id Healthie returned.
C4_OkCarriesId ==
    (signup.res.sent /\ signup.res.status = 200) =>
        /\ signup.res.healthie.hasId
        /\ signup.res.healthie.id # <<>>
        /\ signup.res.healthie.id = ReturnedId(signup.healthieResponse)
        /\ signup.res.healthie.duplicated \in BOOLEAN
        /\ signup.res.authorizer.duplicated \in BOOLEAN

\* Healthie answered 2xx, without an error list, with a createReferringPhysician
Payload(response) ==
    /\ response.net = "ok" /\ response.ok
    /\ parseJsonSafe(response.text).errors = <<>>
    /\ parseJsonSafe(response.text).result.present

\* the signup was answered 422 HEALTHIE_CREATE_FAILED with Healthie's messages
CreateFailed ==
    LET result == signup.healthieResponse.text.body.result IN
    /\ signup.pc = "done" /\ signup.events[3] = "throw"
    /\ signup.res.status = 422 /\ signup.res.code = "HEALTHIE_CREATE_FAILED"
    /\ signup.res.details = Details(result.messages)
    /\ signup.res.message \in {UNABLE_HEALTHIE} \cup
                              {e.message : e \in Range(result.messages)}

\* createReferringProvider returned: the signup went on to the identity client
ClinicalSuccess ==
    /\ signup.events[3] = "return"
    /\ signup.events[4] = "createAuthorizerUser"
    /\ signup.healthie.duplicated =
          signup.healthieResponse.text.body.result.duplicated_physician.present

\* C5 as stated: on a payload the result is the 422 failure exactly when
\* neither sub-object is there, and a success otherwise.
C5_NeitherSubObject ==
    LET result == signup.healthieResponse.text.body.result
        neither == ~result.referring_physician.present
                   /\ ~result.duplicated_physician.present
    IN  (HealthieSettled /\ Payload(signup.healthieResponse)) =>
            IF neither THEN CreateFailed ELSE ClinicalSuccess

\* C5: every answer is classified as one of thrown failure, returned
\* duplicate, returned non-duplicate; on a payload the result is the 422
\* failure when neither sub-object is there, a success when one of them
\* carries an id, and, when a sub-object is there but no id can be read from
\* either, a success in routes/provider.js (which returns no id) and the 422
\* failure in the revision that returns the id.
C5_Classification ==
    LET result == signup.healthieResponse.text.body.result
        neither == ~result.referring_physician.present
                   /\ ~result.duplicated_physician.present
        someId == \E p \in {result.referring_physician, result.duplicated_physician} :
                      p.id.t \in {"string", "number"} /\ p.id.s \notin {<<>>, <<"0">>}
    IN  HealthieSettled =>
            /\ signup.events[3] \in {"throw", "return"}
            /\ signup.events[3] = "throw" =>
                  (signup.pc = "done" /\ signup.res.status \in {500, 502, 422})
            /\ signup.events[3] = "return" => ClinicalSuccess
            /\ Payload(signup.healthieResponse) =>
                  CASE neither -> CreateFailed
                    [] someId -> ClinicalSuccess
                    [] OTHER -> IF providerRev = "routes/provider.js"
                                THEN ClinicalSuccess ELSE CreateFailed

\* a created record without an id is answered 422 by the later revision
C5_Witness ==
    /\ HealthieSettled /\ Payload(signup.healthieResponse)
    /\ signup.healthieResponse.text.body.result.referring_physician = Physician(JNull)
    /\ ~signup.healthieResponse.text.body.result.duplicated_physician.present
    /\ providerRev = "unnamed/part_000"
    /\ signup.res.status = 422

\* an upstream failure outright: a rejected fetch, a status that is not 2xx,
\* or an error list
Outright(response) ==
    \/ response.net = "reject"
    \/ ~response.ok
    \/ parseJsonSafe(response.text).errors # <<>>

\* the message the identity client reads from a failed answer
ExtractedMessage(response) ==
    LET body == parseJsonSafe(response.text) IN
    IF body.errors # <<>> /\ body.errors[1].message # <<>> THEN body.errors[1].message
    ELSE IF body.message # <<>> THEN body.message
    ELSE UNABLE_AUTHORIZER

\* the messages of the model that hold "already exists", "user exists" or
\* "duplicate" in some letter case
DuplicateMessages == {M_UserExists, M_DUPLICATE, M_already}

\* C6: an outright failure of the clinical call is answered 502
\* HEALTHIE_ERROR, one of the identity call (its message no duplicate) 502
\* AUTHORIZER_ERROR; 500 goes with CONFIG_ERROR only and 422 with
\* HEALTHIE_CREATE_FAILED only.
C6_OutrightFailureIs502 ==
    /\ (HealthieSettled /\ Outright(signup.healthieResponse)) =>
          (signup.res.sent /\ signup.res.status = 502
           /\ signup.res.code = "HEALTHIE_ERROR")
    /\ (AuthorizerSettled /\ Outright(signup.authorizerResponse)
        /\ ~(signup.authorizerResponse.net = "ok"
             /\ ExtractedMessage(signup.authorizerResponse) \in DuplicateMessages)) =>
          (signup.res.sent /\ signup.res.status = 502
           /\ signup.res.code = "AUTHORIZER_ERROR")
    /\ (signup.res.sent /\ signup.res.status = 500) => signup.res.code = "CONFIG_ERROR"
    /\ (signup.res.sent /\ signup.res.status = 422) =>
          signup.res.code = "HEALTHIE_CREATE_FAILED"

\* C7: when Authorizer answers with a status that is not 2xx or with an error
\* list, the signup is answered 200 with authorizer.duplicated = true if the
\* extracted message holds a duplicate pattern in any letter case, and
\* otherwise 502 AUTHORIZER_ERROR with that message.
C7_DuplicateByMessage ==
    LET response == signup.authorizerResponse
        message == ExtractedMessage(response)
    IN  (AuthorizerSettled /\ response.net = "ok" /\ Outright(response)) =>
            /\ signup.pc = "done" /\ signup.res.sent
            /\ IF message \in DuplicateMessages
               THEN /\ signup.res.status = 200
                    /\ signup.res.authorizer.duplicated
                    /\ signup.events[6] = "return"
               ELSE /\ signup.res.status = 502
                    /\ signup.res.code = "AUTHORIZER_ERROR"
                    /\ signup.res.message = message
                    /\ signup.events[6] = "throw"

\* a 500 of Authorizer saying "User Exists" is a duplicate: the signup is a 200
C7_Witness ==
    /\ AuthorizerSettled
    /\ ~signup.authorizerResponse.ok /\ signup.authorizerResponse.net = "ok"
    /\ ExtractedMessage(signup.authorizerResponse) = M_UserExists
    /\ signup.res.status = 200 /\ signup.res.authorizer.duplicated

\* C8 as stated: with a credential of either client missing, a validated
\* signup has sent nothing and ends with 500 CONFIG_ERROR.
C8_NoCallAtAll ==
    (Validated /\ (~env.HEALTHIE_AUTHORIZATION \/ ~env.AUTHORIZER_ADMIN_SECRET)) =>
        /\ signup.calls = <<>>
        /\ signup.pc = "done" =>
              (signup.res.status = 500 /\ signup.res.code = "CONFIG_ERROR")

\* C8: each client throws the 500 CONFIG_ERROR before its own fetch.  Without
\* HEALTHIE_AUTHORIZATION a validated signup ends with it and has sent
\* nothing.  Without AUTHORIZER_ADMIN_SECRET only, nothing is ever sent to
\* Authorizer, but the mutation has been sent to Healthie, and the signup ends
\* with the CONFIG_ERROR when createReferringProvider returned and with the
\* clinical call's own error when it threw.
C8_FailFastPerClient ==
    /\ (Validated /\ ~env.HEALTHIE_AUTHORIZATION) =>
          /\ signup.pc = "done" /\ signup.calls = <<>>
          /\ signup.res.status = 500 /\ signup.res.code = "CONFIG_ERROR"
          /\ signup.res.message = MISSING_ENV \o HEALTHIE_AUTHORIZATION
    /\ (Validated /\ env.HEALTHIE_AUTHORIZATION /\ ~env.AUTHORIZER_ADMIN_SECRET) =>
          /\ AuthorizerCalls = {}
          /\ Len(signup.calls) = 1 /\ signup.calls[1].to = "healthie"
          /\ signup.pc \in {"healthie_fetch", "done"}
          /\ (signup.pc = "done" /\ signup.events[3] = "return") =>
                /\ signup.res.status = 500 /\ signup.res.code = "CONFIG_ERROR"
                /\ signup.res.message = MISSING_ENV \o AUTHORIZER_ADMIN_SECRET
          /\ (signup.pc = "done" /\ signup.events[3] = "throw") =>
                signup.res.code # "CONFIG_ERROR"

\* the identity credential is missing: the mutation went to Healthie before
\* the CONFIG_ERROR
C8_Witness ==
    /\ env.HEALTHIE_AUTHORIZATION /\ ~env.AUTHORIZER_ADMIN_SECRET
    /\ signup.pc = "done" /\ Len(signup.calls) = 1
    /\ signup.res.status = 500 /\ signup.res.code = "CONFIG_ERROR"


----------------------------------------------------------------------------
(* The intake routes of every revision *)

Valid_email == JStr(<<"a","@","b">>)

Valid_mobile == JStr(<<"5","5","5">>)

Valid_dateOfBirth == JStr(<<"d">>)

Valid_name == JStr(<<" ","A","l"," ">>)

AllPatientsRevs == PatientsRevs \cup {"routes/patients.js"}

\* isiScore as a client may send it
IsiScores ==
    {JUndefined, JNull, JStr(<<>>),
     JNum(<<"-","1">>), JNum(<<"2","9">>), JNum(<<"0">>), JNum(<<"2","8">>),
     JNum(<<"3",".","5">>), JNum(<<"-","0",".","5">>),
     JStr(<<"a","b","c">>), JStr(<<"1","2","a">>), JStr(<<"-","1">>), JStr(<<"2","9">>),
     JStr(<<"0">>), JStr(<<" ","2","8"," ">>), JStr(<<"2","8",".","5">>),
     JStr(<<"7",".","0">>), JStr(<<" ">>)}

\* suggestedTreatments as a client may send it
TreatmentLists ==
    {Treatments(FALSE, <<>>), Treatments(FALSE, <<CBTI>>), Treatments(TRUE, <<>>),
     Treatments(TRUE, <<CBTI>>),
     Treatments(TRUE, <<"cognitive behavioral therapy for insomnia", "Zepbound">>),
     Treatments(TRUE, <<SLEEP_EEG, "Acupuncture", ZEPBOUND_OSA>>),
     Treatments(TRUE, <<CPAP_COMISA, NATURAL_PRODUCTS, INSOMNIA_MEDS_MGMT>>),
     Treatments(TRUE, <<CBTI, CPAP_COMISA, SLEEP_EEG, ZEPBOUND_OSA, NATURAL_PRODUCTS,
                        INSOMNIA_MEDS_MGMT>>)}

\* bodies that differ in one group of members at a time
AnyBodies ==
    {AnyBody(JStr(W_77), JStr(W_77), JStr(P_clinica), Valid_name, Valid_dateOfBirth,
             Valid_email, isiScore, Treatments(TRUE, <<CBTI>>)) : isiScore \in IsiScores}
    \cup
    {AnyBody(JStr(W_77), JStr(W_77), JStr(P_clinica), Valid_name, Valid_dateOfBirth,
             Valid_email, JNum(<<"7">>), tx) : tx \in TreatmentLists}
    \cup
    {AnyBody(provider_id, provider_id, practiceName, Valid_name, Valid_dateOfBirth,
             Valid_email, JUndefined, Treatments(TRUE, <<>>)) :
        provider_id \in {JUndefined, JStr(<<" ">>), JStr(<<" ">> \o W_88 \o <<" ">>),
                         JNum(<<"5">>)},
        practiceName \in {JUndefined, JStr(P_clinica), JStr(P_zz), JNum(<<"5">>)}}
    \cup
    {AnyBody(JStr(W_77), JStr(W_77), JStr(P_clinica), name, dateOfBirth, email,
             JStr(<<"2","9">>), Treatments(TRUE, <<>>)) :
        name \in {Valid_name, JStr(<<" ">>), JNum(<<"5">>)},
        dateOfBirth \in {Valid_dateOfBirth, JUndefined},
        email \in {JUndefined, JStr(<<" ">>), JNum(<<"5">>)}}
    \cup
    {AnyBody(JStr(W_77), JStr(W_77), JStr(P_clinica), Valid_name, Valid_dateOfBirth, email,
             JUndefined, Treatments(TRUE, <<>>)) :
        email \in {JUndefined, JStr(<<" ">>), JNum(<<"5">>)}}

\* the accounts the practice names of these bodies are looked up in
IntakeAccounts ==
    {<<>>,
     <<[app_data |-> AppData("object", AppObject(JStr(P_ClinicA), JStr(W_77), JUndefined,
                                                 JUndefined))]>>}

InitIntake ==
    /\ env = [HEALTHIE_AUTHORIZATION |-> TRUE, AUTHORIZER_ADMIN_SECRET |-> TRUE]
    /\ providerRev = "unnamed/part_000"
    /\ signup = Idle
    /\ patientsRev \in AllPatientsRevs
    /\ authorizer_users \in IntakeAccounts
    /\ patients = <<>>
    /\ nextId = 1
    /\ intake = NoIntake
    /\ retry = NoIntake

\* POST /api/patients arrives
PostRequest ==
    /\ intake.pc = "idle"
    /\ Len(patients) < MaxRows
    /\ \E body \in AnyBodies : intake' = postReceived(patientsRev, body)
    /\ UNCHANGED <<patientsRev, authorizer_users, patients, nextId, retry>>
    /\ UNCHANGED signupVars

\* POST /api/patients/public arrives at the mounted revision
AnyPublicRequest ==
    /\ intake.pc = "idle"
    /\ Len(patients) < MaxRows
    /\ \E body \in AnyBodies : intake' = publicRoute(patientsRev, body)
    /\ UNCHANGED <<patientsRev, authorizer_users, patients, nextId, retry>>
    /\ UNCHANGED signupVars

NextIntake ==
    \/ PostRequest
    \/ AnyPublicRequest
    \/ SelectAccountsSettles
    \/ InsertSettles
    \/ IntakeEnds

SpecIntake == InitIntake /\ [][NextIntake]_vars

----------------------------------------------------------------------------
(* Two intake requests handled at the same time *)

P_CLINICA_ == <<" ","C","L","I","N","I","C"," ","A">>

\* bodies every revision of POST /api/patients/public accepts
PairPublicBodies ==
    {DirectBody(JStr(W_77), practiceName, Valid_name, Valid_dateOfBirth, Valid_mobile,
                Valid_email, JUndefined, Treatments(TRUE, <<CBTI>>)) :
        practiceName \in {JStr(P_clinica), JStr(P_CLINICA_), JStr(P_B), JStr(P_zz)}}

\* bodies every revision of POST /api/patients accepts
PairPostBodies ==
    {PostBody(provider_id, Valid_name, Valid_dateOfBirth, Valid_mobile, Valid_email,
              JUndefined, Treatments(TRUE, <<CBTI>>)) :
        provider_id \in {JStr(W_77), JStr(W_88)}}

InitPair ==
    /\ env = [HEALTHIE_AUTHORIZATION |-> TRUE, AUTHORIZER_ADMIN_SECRET |-> TRUE]
    /\ providerRev = "unnamed/part_000"
    /\ signup = Idle
    /\ patientsRev \in AllPatientsRevs
    /\ authorizer_users \in Accounts
    /\ patients = <<>>
    /\ nextId = 1
    /\ intake = NoIntake
    /\ retry = NoIntake

\* POST /api/patients/public arrives
PairPublicRequest ==
    /\ intake.pc = "idle" /\ intake.route = ""
    /\ \E body \in PairPublicBodies : intake' = publicRoute(patientsRev, body)
    /\ UNCHANGED <<patientsRev, authorizer_users, patients, nextId, retry>>
    /\ UNCHANGED signupVars

\* POST /api/patients arrives
PairPostRequest ==
    /\ intake.pc = "idle" /\ intake.route = ""
    /\ \E body \in PairPostBodies : intake' = postReceived(patientsRev, body)
    /\ UNCHANGED <<patientsRev, authorizer_users, patients, nextId, retry>>
    /\ UNCHANGED signupVars

\* a second POST /api/patients/public arrives while or after the first is
\* handled
SecondPublicRequest ==
    /\ intake.route = "POST /public"
    /\ retry.pc = "idle" /\ retry.route = ""
    /\ \E body \in PairPublicBodies : retry' = publicRoute(patientsRev, body)
    /\ UNCHANGED <<patientsRev, authorizer_users, patients, nextId, intake>>
    /\ UNCHANGED signupVars

\* a second POST /api/patients arrives while or after the first is handled
SecondPostRequest ==
    /\ intake.route = "POST /"
    /\ retry.pc = "idle" /\ retry.route = ""
    /\ \E body \in PairPostBodies : retry' = postReceived(patientsRev, body)
    /\ UNCHANGED <<patientsRev, authorizer_users, patients, nextId, intake>>
    /\ UNCHANGED signupVars

\* the SELECT over authorizer_users of the second request settles
SecondSelectAccountsSettles ==
    /\ retry.pc = "select_accounts"
    /\ \E ok \in BOOLEAN :
          retry' = publicAfterAccounts(patientsRev, retry, ok, authorizer_users)
    /\ UNCHANGED <<patientsRev, authorizer_users, patients, nextId, intake>>
    /\ UNCHANGED signupVars

\* the INSERT of the second request settles
SecondInsertSettles ==
    /\ retry.pc = "insert"
    /\ \E ok \in BOOLEAN :
          /\ retry' = afterInsert(patientsRev, retry, ok, nextId)
          /\ patients' = insertPatient(patients, retry.row, ok, nextId)
          /\ nextId' = IF ok THEN nextId + 1 ELSE nextId
    /\ UNCHANGED <<patientsRev, authorizer_users, intake>>
    /\ UNCHANGED signupVars

NextPair ==
    \/ PairPublicRequest
    \/ PairPostRequest
    \/ SelectAccountsSettles
    \/ InsertSettles
    \/ SecondPublicRequest
    \/ SecondPostRequest
    \/ SecondSelectAccountsSettles
    \/ SecondInsertSettles

SpecPair == InitPair /\ [][NextPair]_vars

----------------------------------------------------------------------------
(* Every route of the application, one request at a time: what a step does
   to the tables does not depend on the requests handled beside it *)

\* app.use((req, res) => res.status(404).sendFile(...)): no route matches
unmatched ==
    [NoIntake EXCEPT !.route = "*", !.pc = "done",
                     !.res = [NoAnswer EXCEPT !.sent = TRUE, !.status = 404]]

W_123456789 == <<"1","2","3","-","4","5","-","6","7","8","9">>

\* one signup with every member and one without a password
AllSignupPayloads ==
    {[firstName |-> JStr(<<"A","n","n">>), lastName |-> JStr(<<"L","e","e">>),
      practiceName |-> JStr(P_ClinicA), npi |-> JStr(W_123456789),
      email |-> JStr(<<"a","@","b">>), phone |-> JStr(<<"5","5","5">>),
      password |-> password] : password \in {JStr(<<"p","w">>), JUndefined}}

AllPostBody ==
    PostBody(JStr(W_77), Valid_name, Valid_dateOfBirth, Valid_mobile, Valid_email,
             JNum(<<"7">>), Treatments(TRUE, <<CBTI>>))

AllPublicBodies ==
    {IntakeBody(practiceName, Valid_name, Valid_dateOfBirth, Valid_mobile, Valid_email,
                JNum(<<"7">>), Treatments(TRUE, <<CBTI>>)) :
        practiceName \in {JStr(P_clinica), JStr(P_zz)}}

InitAll ==
    /\ env = [HEALTHIE_AUTHORIZATION |-> TRUE, AUTHORIZER_ADMIN_SECRET |-> TRUE]
    /\ providerRev \in ProviderRevs
    /\ signup = Idle
    /\ patientsRev = "unnamed/part_001"
    /\ authorizer_users \in IntakeAccounts
    /\ patients = <<>>
    /\ nextId = 1
    /\ intake = NoIntake
    /\ retry = NoIntake

NoRequest == signup.pc = "idle" /\ intake.pc = "idle"

\* POST /api/provider/signup arrives
AllSignupRequest ==
    /\ NoRequest
    /\ \E payload \in AllSignupPayloads : signup' = signupReceived(env, payload)
    /\ UNCHANGED <<env, providerRev>>
    /\ UNCHANGED patientsVars

\* GET /api/patients arrives
AllGetRequest ==
    /\ NoRequest
    /\ \E authorization \in Authorizations : intake' = getReceived(authorization)
    /\ UNCHANGED <<patientsRev, authorizer_users, patients, nextId, retry>>
    /\ UNCHANGED signupVars

\* POST /api/patients arrives
AllPostRequest ==
    /\ NoRequest
    /\ Len(patients) <= MaxRows
    /\ intake' = postReceived(patientsRev, AllPostBody)
    /\ UNCHANGED <<patientsRev, authorizer_users, patients, nextId, retry>>
    /\ UNCHANGED signupVars

\* POST /api/patients/public arrives
AllPublicRequest ==
    /\ NoRequest
    /\ Len(patients) <= MaxRows
    /\ \E body \in AllPublicBodies : intake' = publicRoute(patientsRev, body)
    /\ UNCHANGED <<patientsRev, authorizer_users, patients, nextId, retry>>
    /\ UNCHANGED signupVars

\* a request arrives that no route matches
UnmatchedRequest ==
    /\ NoRequest
    /\ intake' = unmatched
    /\ UNCHANGED <<patientsRev, authorizer_users, patients, nextId, retry>>
    /\ UNCHANGED signupVars

NextAll ==
    \/ AllSignupRequest
    \/ HealthieSettles
    \/ AuthorizerSettles
    \/ SignupEnds
    \/ AllGetRequest
    \/ ProfileSettles
    \/ SelectPatientsSettles
    \/ AllPostRequest
    \/ AllPublicRequest
    \/ SelectAccountsSettles
    \/ InsertSettles
    \/ UnmatchedRequest
    \/ IntakeEnds

SpecAll == InitAll /\ [][NextAll]_vars

----------------------------------------------------------------------------
(* A signup, then an intake for the practice that signed up: Authorizer keeps
   the app_data it was sent with the account it creates *)

\* app_data of the account as Authorizer stores it: the members of the
\* app_data of the signup mutation, null when none was sent
accountOf(request) ==
    IF "app_data" \in DOMAIN request.params
    THEN [app_data |->
            AppData("object",
                    [NoAppObject EXCEPT
                       !.practice_name = JStr(request.params.app_data.practice_name)])]
    ELSE [app_data |-> AppNull]

InitCompose ==
    /\ env = [HEALTHIE_AUTHORIZATION |-> TRUE, AUTHORIZER_ADMIN_SECRET |-> TRUE]
    /\ providerRev \in ProviderRevs
    /\ signup = Idle
    /\ patientsRev \in PatientsRevs
    /\ authorizer_users \in IntakeAccounts
    /\ patients = <<>>
    /\ nextId = 1
    /\ intake = NoIntake
    /\ retry = NoIntake

\* POST /api/provider/signup arrives
ComposeSignupRequest ==
    /\ signup.pc = "idle"
    /\ \E payload \in AllSignupPayloads : signup' = signupReceived(env, payload)
    /\ UNCHANGED <<env, providerRev>>
    /\ UNCHANGED patientsVars

\* the fetch of createAuthorizerUser settles; an account that was created is
\* in authorizer_users from then on
AuthorizerSettlesWithAccount ==
    /\ signup.pc = "authorizer_fetch"
    /\ \E response \in AuthorizerResponses :
          /\ signup' = signupAfterAuthorizer(signup, response)
          /\ authorizer_users' =
                IF createAuthorizerUser(response) = Returned(FALSE, <<>>, FALSE, <<>>)
                THEN Append(authorizer_users, accountOf(signup.calls[Len(signup.calls)]))
                ELSE authorizer_users
    /\ UNCHANGED <<env, providerRev>>
    /\ UNCHANGED <<patientsRev, patients, nextId, intake, retry>>

\* POST /api/patients/public arrives after the signup has been answered
ComposePublicRequest ==
    /\ signup.pc = "done"
    /\ intake.pc = "idle" /\ intake.route = ""
    /\ \E body \in AllPublicBodies : intake' = publicRoute(patientsRev, body)
    /\ UNCHANGED <<patientsRev, authorizer_users, patients, nextId, retry>>
    /\ UNCHANGED signupVars

NextCompose ==
    \/ ComposeSignupRequest
    \/ HealthieSettles
    \/ AuthorizerSettlesWithAccount
    \/ ComposePublicRequest
    \/ SelectAccountsSettles
    \/ InsertSettles

SpecCompose == InitCompose /\ [][NextCompose]_vars

----------------------------------------------------------------------------
(* GET /api/patients *)

\* GET /api/patients has answered
GetAnswered == intake.route = "GET /" /\ intake.res.sent

\* the profile query has settled for a GET /api/patients request
ProfileSettled == intake.route = "GET /" /\ intake.pc \in {"select_patients", "done"}
                  /\ intake.fetches = 1

\* the Authorization header carries "Bearer " and a token after it
HasBearerToken ==
    /\ intake.authorization.t = "string"
    /\ Len(intake.authorization.s) > Len(BEARER)
    /\ SubSeq(intake.authorization.s, 1, Len(BEARER)) = BEARER
    /\ \E i \in (Len(BEARER) + 1)..Len(intake.authorization.s) :
          intake.authorization.s[i] \notin WhiteSpace

\* the profile query failed or returned no profile
ProfileFailed ==
    \/ intake.profileResponse.net = "reject"
    \/ ~intake.profileResponse.ok
    \/ intake.profileResponse.text.kind # "json"
    \/ intake.profileResponse.text.body.errors # <<>>
    \/ ~intake.profileResponse.text.body.profile.present

\* the members of the profile's app_data, when it is an object or the JSON
\* text of one
ProfileAppObject ==
    IF intake.profileResponse.text.body.profile.app_data.kind \in {"object", "json"}
    THEN intake.profileResponse.text.body.profile.app_data.obj
    ELSE NoAppObject

\* the ids app_data holds under the accepted aliases, in their order of
\* precedence
AliasValues ==
    <<ProfileAppObject.healthie_provider_id, ProfileAppObject.healthie_providerId,
      ProfileAppObject.healthie_id>>

HoldsId(value) == ~Nullish(value) /\ trim(String(value)) # <<>>

NoAliasHoldsId == \A i \in 1..3 : ~HoldsId(AliasValues[i])

\* the first alias that is neither undefined nor null
FirstAlias ==
    IF \E i \in 1..3 : ~Nullish(AliasValues[i])
    THEN CHOOSE i \in 1..3 : ~Nullish(AliasValues[i]) /\ \A j \in 1..(i - 1) : Nullish(AliasValues[j])
    ELSE 0

\* C9: GET /api/patients answers 401 without a bearer token, 401 when the
\* profile query fails or returns no profile, 403 when the profile's app_data
\* holds no provider id under any of the three aliases; the patients table is
\* queried, and 200 returned with the provider id of the profile, only when
\* none of the three is the case
C9_GetOutcomes ==
    /\ GetAnswered /\ ~HasBearerToken =>
          intake.res.status = 401 /\ intake.fetches = 0 /\ intake.queries = <<>>
    /\ ProfileSettled /\ ProfileFailed =>
          intake.res.status = 401 /\ intake.queries = <<>>
    /\ ProfileSettled /\ ~ProfileFailed /\ NoAliasHoldsId =>
          intake.res.status = 403 /\ intake.queries = <<>>
    /\ intake.route = "GET /" /\ (intake.queries # <<>> \/ intake.res.status = 200) =>
          /\ HasBearerToken /\ intake.fetches = 1 /\ ~ProfileFailed /\ ~NoAliasHoldsId
          /\ intake.queries = <<"SELECT patients">>
    /\ GetAnswered /\ intake.res.status = 200 =>
          /\ FirstAlias # 0
          /\ intake.res.provider_id = trim(String(AliasValues[FirstAlias]))
          /\ intake.res.provider_id # <<>>
          /\ intake.settled = <<"ok">>
          /\ \A i \in 1..Len(intake.res.patients) :
                intake.res.patients[i].provider_id = intake.res.provider_id
          /\ \A i \in 1..Len(patients) :
                patients[i].provider_id = intake.res.provider_id =>
                   \E j \in 1..Len(intake.res.patients) : intake.res.patients[j] = patients[i]
    /\ GetAnswered => intake.res.status \in {200, 401, 403, 500}
    /\ GetAnswered /\ intake.res.status = 500 => intake.settled = <<"error">>

\* a 200 with the stored patients of a provider whose id the profile holds
\* under its third alias, as a number in a JSON text
C9_Witness ==
    /\ GetAnswered
    /\ intake.res.status = 200
    /\ intake.res.provider_id = W_88
    /\ intake.res.patients # <<>>
    /\ Nullish(AliasValues[1]) /\ Nullish(AliasValues[2])

----------------------------------------------------------------------------
(* POST /api/patients/public: the practice name *)

\* the request has passed the required members and its query of the accounts
\* has succeeded
Resolved ==
    /\ intake.route = "POST /public"
    /\ intake.pc \in {"insert", "done"}
    /\ intake.settled # <<>>
    /\ intake.settled[1] = "ok"

\* the requested practice name, normalized: trimmed and in lower case
WantedPractice == toLowerCase(trim(String(intake.body.practiceName)))

\* the members of a stored account's app_data
StoredObject(i) ==
    IF authorizer_users[i].app_data.kind \in {"object", "json"}
    THEN authorizer_users[i].app_data.obj
    ELSE NoAppObject

\* the stored accounts whose normalized practice name is the requested one
Matching ==
    {i \in 1..Len(authorizer_users) :
        /\ StoredObject(i).practice_name.t = "string"
        /\ toLowerCase(trim(StoredObject(i).practice_name.s)) = WantedPractice}

\* the id embedded in a stored account: that of the first alias that is
\* neither undefined nor null, trimmed; <<>> when there is none
EmbeddedId(i) ==
    LET a == StoredObject(i) IN
    IF ~Nullish(a.healthie_provider_id) THEN trim(String(a.healthie_provider_id))
    ELSE IF ~Nullish(a.healthie_providerId) THEN trim(String(a.healthie_providerId))
    ELSE IF ~Nullish(a.healthie_id) THEN trim(String(a.healthie_id))
    ELSE <<>>

Least(S) == CHOOSE i \in S : \A j \in S : i <= j

NotFound ==
    /\ intake.res.sent
    /\ intake.res.status = 404
    /\ intake.queries = <<"SELECT authorizer_users">>

\* C10 as stated: the first matching account decides, so that a first match
\* without an embedded id is a 404
C10_FirstMatchDecides ==
    Resolved =>
       IF Matching = {} \/ EmbeddedId(Least(Matching)) = <<>>
       THEN NotFound
       ELSE intake.providerId = EmbeddedId(Least(Matching))

MatchingWithId == {i \in Matching : EmbeddedId(i) # <<>>}

\* C10: once the required members are there and the accounts are read, the
\* first stored account whose normalized practice name is the requested one
\* and which embeds a provider id decides: its id is used, and when no
\* matching account embeds an id the answer is 404 and no row is inserted
C10_FirstMatchWithIdDecides ==
    /\ Resolved =>
          IF MatchingWithId = {}
          THEN NotFound
          ELSE /\ intake.providerId = EmbeddedId(Least(MatchingWithId))
               /\ intake.res.status # 404
    /\ Resolved /\ intake.res.status = 201 =>
          intake.res.provider_id = EmbeddedId(Least(MatchingWithId))
    /\ Resolved /\ "INSERT patients" \in Range(intake.queries) =>
          intake.row.provider_id = EmbeddedId(Least(MatchingWithId))
    /\ intake.route = "POST /public" /\ intake.res.status = 404 =>
          "INSERT patients" \notin Range(intake.queries)

\* a 201 for a practice whose first matching account embeds no id and whose
\* second one does
C10_Witness ==
    /\ Resolved
    /\ intake.res.status = 201
    /\ Cardinality(Matching) = 2
    /\ EmbeddedId(Least(Matching)) = <<>>
    /\ intake.res.provider_id = W_77
    /\ patients # <<>>
    /\ patients[Len(patients)].provider_id = W_77

----------------------------------------------------------------------------
(* Two requests for the same practice *)

\* a request whose practice name has been looked up among the accounts
LookedUp(r) ==
    /\ r.route = "POST /public"
    /\ r.queries # <<>> /\ r.queries[1] = "SELECT authorizer_users"
    /\ r.settled # <<>> /\ r.settled[1] = "ok"

\* a practice name without its case and the whitespace around it
Folded(value) == toLowerCase(trim(String(value)))

Answered404(r) == r.res.sent /\ r.res.status = 404

\* C11: with the same stored accounts, two requested practice names that are
\* equal after trim and lowercase resolve to the same provider id, or both to
\* 404; and a stored account with an id is found under its name in any case
\* and with any whitespace around it
C11_CaseAndWhitespace ==
    /\ LookedUp(intake) /\ LookedUp(retry)
       /\ Folded(intake.body.practiceName) = Folded(retry.body.practiceName) =>
          /\ intake.providerId = retry.providerId
          /\ Answered404(intake) <=> Answered404(retry)
    /\ LookedUp(intake) /\ MatchingWithId # {} =>
          ~Answered404(intake) /\ intake.providerId # <<>>

\* "clinic a " and " CLINIC A" both resolve to the id stored under
\* " Clinic A "
C11_Witness ==
    /\ LookedUp(intake) /\ LookedUp(retry)
    /\ intake.body.practiceName # retry.body.practiceName
    /\ Folded(intake.body.practiceName) = Folded(retry.body.practiceName)
    /\ intake.res.status = 201 /\ retry.res.status = 201
    /\ intake.res.provider_id = W_77 /\ retry.res.provider_id = W_77
    /\ authorizer_users[1].app_data.obj.practice_name = JStr(P_ClinicA)

----------------------------------------------------------------------------
(* The intake routes: the score *)

\* the request is one of the two intake paths
IsIntake(r) == r.route \in {"POST /", "POST /public"}

IntakeAnswered(r) == IsIntake(r) /\ r.res.sent

Inserting(r) == "INSERT patients" \in Range(r.queries)

NonBlankString(value) ==
    value.t = "string" /\ \E i \in 1..Len(value.s) : value.s[i] \notin WhiteSpace

\* the provider of the request is there: a provider_id on POST /, a
\* healthie_provider_id on the POST /public of routes/patients.js, a practice
\* name that an account with an id carries on the later POST /public
ProviderGiven(r) ==
    IF r.route = "POST /" THEN NonBlankString(r.body.provider_id)
    ELSE IF patientsRev = "routes/patients.js"
    THEN NonBlankString(r.body.healthie_provider_id)
    ELSE /\ NonBlankString(r.body.practiceName)
         /\ r.settled # <<>> /\ r.settled[1] = "ok"
         /\ r.providerId # <<>>

\* name, dateOfBirth, mobile and email are as the routes want them
MembersGiven(r) ==
    /\ NonBlankString(r.body.name)
    /\ NonBlankString(r.body.dateOfBirth)
    /\ NonBlankString(r.body.mobile)
    /\ r.body.email.t \in {"string", "undefined", "null"}

\* the INSERT of the request has succeeded
Inserted(r) == Inserting(r) /\ r.pc = "done" /\ r.settled[Len(r.settled)] = "ok"

NumericChars == DigitChars \cup {"-", "+", "."} \cup WhiteSpace

\* -1, 29, "abc" and the strings that are no number
BadScores ==
    {JNum(<<"-","1">>), JNum(<<"2","9">>), JStr(<<"-","1">>), JStr(<<"2","9">>)}
    \cup {v \in IsiScores : v.t = "string" /\ \E i \in 1..Len(v.s) : v.s[i] \notin NumericChars}

ZeroScores == {JNum(<<"0">>), JStr(<<"0">>)}

TopScores == {JNum(<<"2","8">>), JStr(<<" ","2","8"," ">>)}

AbsentScores == {JUndefined, JNull, JStr(<<>>)}

\* the row the answered request has inserted
LastRow == patients[Len(patients)]

----------------------------------------------------------------------------
(* The patients table *)

\* an integer from 0 to 28
IntegerScore(n) == ~n.nan /\ ~n.frac /\ (~n.neg \/ n.int = 0) /\ n.int <= 28

\* C13: every row of the patients table has an isi_score that is null or an
\* integer from 0 to 28
C13_StoredScoreIsInteger ==
    \A i \in 1..Len(patients) :
       patients[i].isi_score.null \/ IntegerScore(patients[i].isi_score.n)

\* C14: every row of the patients table has a provider_id that is not empty
\* once the whitespace around it is removed
C14_StoredProviderIdNonEmpty ==
    \A i \in 1..Len(patients) : trim(patients[i].provider_id) # <<>>

----------------------------------------------------------------------------
(* The treatment flags *)

FlagNames ==
    {"tx_cbti", "tx_cpap_comisa", "tx_sleep_eeg", "tx_zepbound_osa", "tx_natural_products",
     "tx_insomnia_meds_mgmt"}

\* the label of each flag
LabelOf(flag) ==
    CASE flag = "tx_cbti" -> CBTI
      [] flag = "tx_cpap_comisa" -> CPAP_COMISA
      [] flag = "tx_sleep_eeg" -> SLEEP_EEG
      [] flag = "tx_zepbound_osa" -> ZEPBOUND_OSA
      [] flag = "tx_natural_products" -> NATURAL_PRODUCTS
      [] flag = "tx_insomnia_meds_mgmt" -> INSOMNIA_MEDS_MGMT

\* the label is an element of the list the caller sent
Listed(r, label) ==
    /\ r.body.suggestedTreatments.isArray
    /\ \E i \in 1..Len(r.body.suggestedTreatments.items) :
          r.body.suggestedTreatments.items[i] = label

ValidScore(r) == r.body.isiScore \in {JUndefined, JNum(<<"7">>)}

\* C15: each of the six stored flags is true exactly when its label is an
\* element of the suggestedTreatments list; labels that are not in the table
\* and a value that is no list set no flag, and neither causes an error
C15_FlagsByLabel ==
    /\ IsIntake(intake) /\ Inserting(intake) =>
          \A flag \in FlagNames : intake.row.tx[flag] <=> Listed(intake, LabelOf(flag))
    /\ IsIntake(intake) /\ Inserted(intake) =>
          \A flag \in FlagNames : LastRow.tx[flag] <=> Listed(intake, LabelOf(flag))
    /\ IsIntake(intake) /\ intake.pc # "idle"
       /\ ProviderGiven(intake) /\ MembersGiven(intake) /\ ValidScore(intake) =>
          /\ Inserting(intake)
          /\ Inserted(intake) /\ NonBlankString(intake.body.practiceName) =>
                intake.res.status = 201

\* a 201 for a list with two labels of the table and one that is not in it
C15_Witness ==
    /\ IsIntake(intake) /\ Inserted(intake)
    /\ intake.res.status = 201
    /\ intake.body.suggestedTreatments.items = <<SLEEP_EEG, "Acupuncture", ZEPBOUND_OSA>>
    /\ LastRow.tx.tx_sleep_eeg /\ LastRow.tx.tx_zepbound_osa /\ ~LastRow.tx.tx_cbti

\* C16: no step of any request (signup, GET /api/patients, POST
\* /api/patients, POST /api/patients/public, a request no route matches)
\* changes or removes a row that is in the patients table: the table only
\* grows
C16_RowsAreKept ==
    [][/\ Len(patients') >= Len(patients)
       /\ \A i \in 1..Len(patients) : patients'[i] = patients[i]]_vars

\* a second row is there beside the first, and a signup has been answered
C16_Witness ==
    /\ Len(patients) = MaxRows + 1
    /\ patients[1].id = 1
    /\ signup.pc = "done" /\ signup.res.status = 200

----------------------------------------------------------------------------
(* A request sent twice *)

AllSettledOk(r) == \A i \in 1..Len(r.settled) : r.settled[i] = "ok"

\* the two requests are the same valid request, both have been answered and
\* no query of either has failed
RetriedAndAnswered ==
    /\ IsIntake(intake) /\ retry.route = intake.route /\ retry.body = intake.body
    /\ intake.pc = "done" /\ retry.pc = "done"
    /\ AllSettledOk(intake) /\ AllSettledOk(retry)
    /\ MembersGiven(intake)
    /\ IF intake.route = "POST /" THEN NonBlankString(intake.body.provider_id)
       ELSE IF patientsRev = "routes/patients.js"
       THEN NonBlankString(intake.body.healthie_provider_id)
       ELSE MatchingWithId # {}

\* C17: two intake requests with the same valid body, handled one after the
\* other or interleaved, are both answered 201 and leave two rows with two
\* different ids
C17_RetryInsertsAgain ==
    RetriedAndAnswered =>
       /\ intake.res.status = 201 /\ retry.res.status = 201
       /\ intake.res.patientId # retry.res.patientId
       /\ Len(patients) = 2
       /\ {patients[1].id, patients[2].id} = {intake.res.patientId, retry.res.patientId}
       /\ [patients[1] EXCEPT !.id = 0] = [patients[2] EXCEPT !.id = 0]

\* the second request, sent while the first was waiting for its INSERT, got
\* the lower id
C17_Witness ==
    /\ RetriedAndAnswered
    /\ intake.route = "POST /public"
    /\ patientsRev = "unnamed/part_001"
    /\ retry.res.patientId = 1 /\ intake.res.patientId = 2
    /\ patients[1].provider_id = patients[2].provider_id

----------------------------------------------------------------------------
(* Exceptions nobody expected *)

\* a fetch of the signup has been rejected: the TypeError of fetch is thrown
\* through the client
SignupFetchRejected ==
    \/ HealthieSettled /\ signup.healthieResponse.net = "reject"
    \/ AuthorizerSettled /\ signup.authorizerResponse.net = "reject"

\* a query of the request has failed
QueryFailed(r) == \E i \in 1..Len(r.settled) : r.settled[i] = "error"

\* C18: an exception nobody expected (a rejected fetch, a failed query) is
\* answered 500 with a fixed message that owes nothing to the exception, on
\* the signup route ("Unable to create provider account.") as on the
\* patients routes ("Server error")
C18_Generic500 ==
    /\ SignupFetchRejected =>
          /\ signup.res.sent /\ signup.res.status = 500
          /\ signup.res.message = UNABLE_PROVIDER
    /\ intake.res.sent /\ QueryFailed(intake) =>
          intake.res.status = 500 /\ intake.res.error = "Server error"

----------------------------------------------------------------------------
(* Signup, then intake *)

\* the signup has been answered 200 with an id and a new account
SignedUp ==
    /\ signup.pc = "done" /\ signup.res.sent /\ signup.res.status = 200
    /\ signup.res.healthie.hasId
    /\ ~signup.res.authorizer.duplicated

\* the app_data of the signup mutation holds the id under an alias the
\* resolver reads
SentAppDataHolds(id) ==
    LET params == signup.calls[Len(signup.calls)].params IN
    /\ "app_data" \in DOMAIN params
    /\ \E alias \in {"healthie_provider_id", "healthie_providerId", "healthie_id"} :
          alias \in DOMAIN params.app_data /\ params.app_data[alias] = id

\* C19: after a signup for practice P answered 200 with healthie.id = X and
\* authorizer.duplicated = false, the app_data sent for the account holds P
\* and X under an alias of the resolver, and a later POST /api/patients/public
\* for P is resolved to X and inserts with provider_id X
C19_SignupThenIntake ==
    /\ SignedUp =>
          /\ SentAppDataHolds(signup.res.healthie.id)
          /\ signup.calls[Len(signup.calls)].params.app_data.practice_name =
                signup.input.practiceName
    /\ SignedUp /\ LookedUp(intake)
       /\ Folded(intake.body.practiceName) = toLowerCase(trim(signup.input.practiceName)) =>
          /\ ~Answered404(intake)
          /\ intake.providerId = signup.res.healthie.id
          /\ Inserting(intake) => intake.row.provider_id = signup.res.healthie.id

----------------------------------------------------------------------------
(* Insert and answer *)

\* the step answers an intake request with 201
Answers201 ==
    /\ IsIntake(intake') /\ ~intake.res.sent
    /\ intake'.res.sent /\ intake'.res.status = 201

\* C20: the patients table changes exactly in the steps that answer an intake
\* request with 201, by one row whose id is the patientId of the answer; a
\* request answered 400 or 404 has sent no INSERT
C20_InsertIff201 ==
    [][/\ patients' # patients <=> Answers201
       /\ Answers201 =>
             /\ Len(patients') = Len(patients) + 1
             /\ SubSeq(patients', 1, Len(patients)) = patients
             /\ patients'[Len(patients')].id = intake'.res.patientId
       /\ IntakeAnswered(intake') /\ intake'.res.status \in {400, 404} =>
             ~Inserting(intake')]_vars

====
